---- MODULE Spec2Model ----
(***************************************************************************)
(* A model of the EaselJS display core: DisplayObject.js (transforms,      *)
(* coordinate conversion, caching) and Stage.js (render cycle, hit-test    *)
(* entry points, image export).  Matrix2D, Point, Container and the canvas *)
(* are collaborators that live outside these two files; they are modelled  *)
(* from their documented contracts.                                        *)
(*                                                                         *)
(* JavaScript numbers are modelled by exact rationals; a rotation is a     *)
(* multiple of a quarter turn so that its sine and cosine are integers.    *)
(***************************************************************************)
EXTENDS Integers, Sequences, FiniteSets, TLC

VARIABLES
    parent,     \* DisplayObject.parent of every node (NULL when unattached)
    children,   \* DisplayObject.children of every node (draw order)
    props,      \* the public display properties of every node
    content,    \* what every node's own drawing code paints, in local space
    cacheCanvas,    \* DisplayObject.cacheCanvas of every node
    cacheOffset,    \* DisplayObject._cacheOffsetX/_cacheOffsetY of every node
    cachedFrom, \* the content every node had at its last cache() call
    canvas,     \* Stage.canvas of every stage: a canvas of the page, or NULL
    surface,    \* the canvases of the page
    autoClear,  \* Stage.autoClear of every stage
    tmpCanvas,  \* Stage._tmpCanvas of every stage
    calls,      \* what the last render, clear or query called, in order
    op,         \* the operation that ran last
    ret,        \* what that operation returned (or the error it raised)
    uid,        \* the counter of the UID generator
    id,         \* DisplayObject.id of every node, -1 before its construction
    mouse,      \* mouseX, mouseY and _activeMouseEvent of every stage
    handlers    \* the mouse callbacks set on every node

treeVars == <<parent, children, props>>
cacheVars == <<content, cacheCanvas, cacheOffset, cachedFrom>>
stageVars == <<canvas, surface, autoClear, tmpCanvas, calls>>
pageVars == <<uid, id, mouse, handlers>>
vars == <<parent, children, props, content, cacheCanvas, cacheOffset,
          cachedFrom, canvas, surface, autoClear, tmpCanvas, calls, op, ret,
          uid, id, mouse, handlers>>

\* What the display-list operations leave alone.
notTree == <<cacheVars, stageVars, pageVars>>

-----------------------------------------------------------------------------
(* Values *)

NULL == "null"

\* Largest coordinate of a point handed to a conversion or a query.
MaxCoord == 1

Nodes == {"stage", "stageB", "stageC", "sprite", "shapeA", "shapeB", "shapeC"}

\* The nodes of the display lists whose coordinates are converted.
TreeNodes == {"stage", "sprite", "shapeA"}

\* The constructor each node was made with.
Kind(n) ==
    CASE n \in {"stage", "stageB", "stageC"} -> "Stage"
      [] n = "sprite" -> "Container"
      [] OTHER -> "Shape"

IsContainer(n) == Kind(n) \in {"Stage", "Container"}

Stages == {n \in Nodes : Kind(n) = "Stage"}

\* The stage of the scenes that have one.
MainStages == {"stage"}

Abs(i) == IF i < 0 THEN -i ELSE i

RECURSIVE GCD(_, _)
GCD(a, b) == IF b = 0 THEN a ELSE GCD(b, a % b)

\* The rational n/d in lowest terms with a positive denominator (d # 0).
Rat(n, d) ==
    LET g == GCD(Abs(n), Abs(d))
        s == IF d < 0 THEN -1 ELSE 1
    IN <<(s * n) \div g, (s * d) \div g>>

RatMul(p, q) == Rat(p[1] * q[1], p[2] * q[2])

RatPositive(p) == p[1] > 0

\* new Point(x, y): x and y are rationals.
Point(x, y) == [x |-> x, y |-> y]

IntPoint(x, y) == Point(Rat(x, 1), Rat(y, 1))

Coords == 0..MaxCoord

-----------------------------------------------------------------------------
(* Values returned to a caller.  Every return value is a tagged record, so *)
(* that null, a Point, a matrix and a raised error can be compared.        *)

Null == [tag |-> "null"]

Raise(e) == [tag |-> "raise", error |-> e]

PointVal(x, y) == [tag |-> "Point", x |-> x, y |-> y]

IsNull(v) == v.tag = "null"

IsRaise(v) == v.tag = "raise"

IsPoint(v) == v.tag = "Point"

-----------------------------------------------------------------------------
(* Matrix2D: the coefficients a, b, c, d, tx, ty are the numerators of     *)
(* rationals over the common denominator den; alpha and shadow ride along. *)
(* The matrix maps (px, py) to (a*px + c*py + tx, b*px + d*py + ty).       *)

Matrix2D_identity ==
    [tag |-> "Matrix2D", a |-> 1, b |-> 0, c |-> 0, d |-> 1, tx |-> 0, ty |-> 0,
     den |-> 1, alpha |-> <<1, 1>>, shadow |-> NULL, instance |-> "new"]

\* mtx.identity(): the same instance, with the coefficients and the two
\* accumulators of a new matrix.
Matrix2D_identityCall(m) == [Matrix2D_identity EXCEPT !.instance = m.instance]

\* Sine and cosine of a whole number of quarter turns, in degrees.
Cos(r) == CASE r % 360 = 0 -> 1 [] r % 360 = 180 -> -1 [] OTHER -> 0

Sin(r) == CASE r % 360 = 90 -> 1 [] r % 360 = 270 -> -1 [] OTHER -> 0

\* mtx.prependTransform(x, y, scaleX, scaleY, rotation, regX, regY):
\* T(x,y) . R(rotation) . S(scaleX,scaleY) . T(-regX,-regY) . mtx
Matrix2D_prependTransform(m, x, y, scaleX, scaleY, rotation, regX, regY) ==
    LET la == Cos(rotation) * scaleX
        lb == Sin(rotation) * scaleX
        lc == (0 - Sin(rotation)) * scaleY
        ld == Cos(rotation) * scaleY
        ltx == x - (la * regX + lc * regY)
        lty == y - (lb * regX + ld * regY)
    IN [m EXCEPT !.a = la * m.a + lc * m.b,
                 !.b = lb * m.a + ld * m.b,
                 !.c = la * m.c + lc * m.d,
                 !.d = lb * m.c + ld * m.d,
                 !.tx = la * m.tx + lc * m.ty + ltx * m.den,
                 !.ty = lb * m.tx + ld * m.ty + lty * m.den]

\* mtx.append(a, b, c, d, tx, ty): mtx . (a, b, c, d, tx, ty); a..d are
\* integers, tx and ty rationals.
Matrix2D_append(m, a, b, c, d, tx, ty) ==
    LET q == tx[2] * ty[2]
    IN [m EXCEPT !.a = (m.a * a + m.c * b) * q,
                 !.b = (m.b * a + m.d * b) * q,
                 !.c = (m.a * c + m.c * d) * q,
                 !.d = (m.b * c + m.d * d) * q,
                 !.tx = m.a * tx[1] * ty[2] + m.c * ty[1] * tx[2] + m.tx * q,
                 !.ty = m.b * tx[1] * ty[2] + m.d * ty[1] * tx[2] + m.ty * q,
                 !.den = m.den * q]

Determinant(m) == m.a * m.d - m.b * m.c

\* mtx.invert(): the affine inverse; signals SingularMatrixError when the
\* determinant is zero.
Matrix2D_invert(m) ==
    IF Determinant(m) = 0
    THEN Raise("SingularMatrixError")
    ELSE [m EXCEPT !.a = m.d * m.den,
                   !.b = (0 - m.b) * m.den,
                   !.c = (0 - m.c) * m.den,
                   !.d = m.a * m.den,
                   !.tx = m.c * m.ty - m.d * m.tx,
                   !.ty = m.b * m.tx - m.a * m.ty,
                   !.den = Determinant(m)]

-----------------------------------------------------------------------------
(* DisplayObject: properties *)

\* The prototype's values (DisplayObject.js, "public properties").
DefaultProps ==
    [alpha |-> <<1, 1>>, mouseEnabled |-> TRUE, regX |-> 0, regY |-> 0,
     rotation |-> 0, scaleX |-> 1, scaleY |-> 1, shadow |-> NULL,
     visible |-> TRUE, x |-> 0, y |-> 0]

\* !v for a value that is an object reference or null.
JsNot(v) == IF v = NULL THEN "true" ELSE "false"

\* v instanceof Stage: only an object made by the Stage constructor is one.
InstanceOfStage(v) == v \in Nodes /\ Kind(v) = "Stage"

-----------------------------------------------------------------------------
(* DisplayObject: coordinate conversion *)

\* The while (true) loop of getConcatenatedMatrix: from target up to the
\* node without a parent.  Returns that node and the matrix.
RECURSIVE ClimbParents(_, _)
ClimbParents(target, mtx) ==
    LET t == props[target]
        m1 == Matrix2D_prependTransform(mtx, t.x, t.y, t.scaleX, t.scaleY,
                                        t.rotation, t.regX, t.regY)
        m2 == [m1 EXCEPT !.alpha = RatMul(m1.alpha, t.alpha),
                         !.shadow = IF m1.shadow # NULL THEN m1.shadow ELSE t.shadow]
    IN IF parent[target] = NULL
       THEN [target |-> target, mtx |-> m2]
       ELSE ClimbParents(parent[target], m2)

\* getConcatenatedMatrix that goes on from what a supplied matrix holds.
getConcatenatedMatrixInto_noReset(this, mtx) ==
    LET r == ClimbParents(this, IF IsNull(mtx) THEN Matrix2D_identity ELSE mtx)
    IN r.mtx

\* this.getConcatenatedMatrix(mtx): a supplied matrix is reset by identity(),
\* otherwise (mtx null) a new one is made.
getConcatenatedMatrixInto(this, mtx) ==
    LET start == IF IsNull(mtx) THEN Matrix2D_identity ELSE Matrix2D_identityCall(mtx)
        r == ClimbParents(this, start)
    IN IF InstanceOfStage(JsNot(r.target)) THEN Null ELSE r.mtx

\* this.getConcatenatedMatrix(), without a matrix.
getConcatenatedMatrix(this) == getConcatenatedMatrixInto(this, Null)

\* this.localToGlobal(x, y); x and y are rationals.
localToGlobal(this, x, y) ==
    LET mtx == getConcatenatedMatrix(this)
    IN IF IsNull(mtx)
       THEN Null
       ELSE LET m == Matrix2D_append(mtx, 1, 0, 0, 1, x, y)
            IN PointVal(Rat(m.tx, m.den), Rat(m.ty, m.den))

\* globalToLocal without its mtx.invert() step.
globalToLocal_noInvert(this, x, y) ==
    LET mtx == getConcatenatedMatrix(this)
    IN IF IsNull(mtx)
       THEN Null
       ELSE LET m == Matrix2D_append(mtx, 1, 0, 0, 1, x, y)
            IN PointVal(Rat(m.tx, m.den), Rat(m.ty, m.den))

\* this.globalToLocal(x, y); x and y are rationals.  An error signalled by
\* invert() is not handled here and reaches the caller.
globalToLocal(this, x, y) ==
    LET mtx == getConcatenatedMatrix(this)
    IN IF IsNull(mtx)
       THEN Null
       ELSE LET inv == Matrix2D_invert(mtx)
            IN IF IsRaise(inv)
               THEN inv
               ELSE LET m == Matrix2D_append(inv, 1, 0, 0, 1, x, y)
                    IN PointVal(Rat(m.tx, m.den), Rat(m.ty, m.den))

\* this.localToLocal(x, y, target): pt.x on a null pt is a TypeError.
localToLocal(this, x, y, target) ==
    LET pt == localToGlobal(this, x, y)
    IN IF IsNull(pt)
       THEN Raise("TypeError")
       ELSE globalToLocal(target, pt.x, pt.y)

\* this.getStage()
RECURSIVE Topmost(_)
Topmost(o) == IF parent[o] # NULL THEN Topmost(parent[o]) ELSE o

getStage(this) == IF InstanceOfStage(Topmost(this)) THEN Topmost(this) ELSE NULL

-----------------------------------------------------------------------------
(* The operation that ran last, with its receiver and arguments. *)

ConversionNames ==
    {"getConcatenatedMatrix", "localToGlobal", "globalToLocal", "localToLocal"}

Op(name, this, x, y, target) ==
    [name |-> name, this |-> this, x |-> x, y |-> y, target |-> target]

NoOp == Op("none", NULL, 0, 0, NULL)

\* A conversion changes nothing, so what can follow it is what can follow the
\* display list it was called on: a behaviour records one conversion, the
\* last thing it does.
Converted == op.name \in ConversionNames

\* What a call without a return value leaves behind.
Undefined == [tag |-> "undefined"]

-----------------------------------------------------------------------------
(* Container: the child list (outside DisplayObject.js and Stage.js) *)

NoChildren == [n \in Nodes |-> <<>>]

Without(seq, c) == SelectSeq(seq, LAMBDA e : e # c)

RECURSIVE IsAncestor(_, _)
\* a is o or one of o's ancestors
IsAncestor(a, o) ==
    IF o = a THEN TRUE
    ELSE IF parent[o] = NULL THEN FALSE
    ELSE IsAncestor(a, parent[o])

\* container.addChild(child): the child leaves its former parent and goes
\* on top of the container's list.
addChild(container, child) ==
    /\ ~Converted
    /\ IsContainer(container)
    /\ Kind(child) # "Stage"
    /\ ~IsAncestor(child, container)
    /\ parent[child] # container
    /\ parent' = [parent EXCEPT ![child] = container]
    /\ children' =
         [n \in Nodes |->
            IF n = container THEN Append(Without(children[n], child), child)
            ELSE Without(children[n], child)]
    /\ op' = Op("addChild", container, 0, 0, child)
    /\ ret' = Undefined
    /\ UNCHANGED props
    /\ UNCHANGED notTree

\* container.removeChild(child)
removeChild(container, child) ==
    /\ ~Converted
    /\ parent[child] = container
    /\ parent' = [parent EXCEPT ![child] = NULL]
    /\ children' = [children EXCEPT ![container] = Without(@, child)]
    /\ op' = Op("removeChild", container, 0, 0, child)
    /\ ret' = Undefined
    /\ UNCHANGED props
    /\ UNCHANGED notTree

-----------------------------------------------------------------------------
(* The application assigns a node's transform properties. *)

Transform(x, y, scaleX, scaleY, rotation, regX, regY) ==
    [x |-> x, y |-> y, scaleX |-> scaleX, scaleY |-> scaleY,
     rotation |-> rotation, regX |-> regX, regY |-> regY]

Transforms ==
    { Transform(0, 0, 1, 1, 0, 0, 0),
      Transform(1, 2, 1, 1, 0, 0, 0),
      Transform(-1, 0, 2, -1, 0, 0, 1),
      Transform(1, 0, 1, 1, 90, 1, 2),
      Transform(2, 1, -1, 2, 270, 1, 0),
      Transform(0, 1, 0, 1, 0, 0, 0),
      Transform(0, 0, 2, 0, 180, 0, 0) }

SetTransform(n, t) ==
    /\ ~Converted
    /\ props' = [props EXCEPT ![n] =
                   [@ EXCEPT !.x = t.x, !.y = t.y, !.scaleX = t.scaleX,
                             !.scaleY = t.scaleY, !.rotation = t.rotation,
                             !.regX = t.regX, !.regY = t.regY]]
    /\ props'[n] # props[n]
    /\ op' = Op("set", n, 0, 0, NULL)
    /\ ret' = Undefined
    /\ UNCHANGED <<parent, children>>
    /\ UNCHANGED notTree

-----------------------------------------------------------------------------
(* Calls of the conversion methods *)

CallGetConcatenatedMatrix(n) ==
    /\ ~Converted
    /\ op' = Op("getConcatenatedMatrix", n, 0, 0, NULL)
    /\ ret' = getConcatenatedMatrix(n)
    /\ UNCHANGED treeVars
    /\ UNCHANGED notTree

CallLocalToGlobal(n, x, y) ==
    /\ ~Converted
    /\ op' = Op("localToGlobal", n, x, y, NULL)
    /\ ret' = localToGlobal(n, Rat(x, 1), Rat(y, 1))
    /\ UNCHANGED treeVars
    /\ UNCHANGED notTree

CallGlobalToLocal(n, x, y) ==
    /\ ~Converted
    /\ op' = Op("globalToLocal", n, x, y, NULL)
    /\ ret' = globalToLocal(n, Rat(x, 1), Rat(y, 1))
    /\ UNCHANGED treeVars
    /\ UNCHANGED notTree

CallLocalToLocal(n, x, y, target) ==
    /\ ~Converted
    /\ op' = Op("localToLocal", n, x, y, target)
    /\ ret' = localToLocal(n, Rat(x, 1), Rat(y, 1), target)
    /\ UNCHANGED treeVars
    /\ UNCHANGED notTree

-----------------------------------------------------------------------------
(* The display list and its coordinate conversions *)

\* The order the application constructs its nodes in.
NodeOrder == <<"stage", "stageB", "stageC", "sprite", "shapeA", "shapeB", "shapeC">>

\* UID.get(): the value handed out and the counter after it.
UID_get(counter) == [value |-> counter, counter |-> counter + 1]

\* The prototype's mouse properties of a stage: no position, no active node.
NoMouse == [mouseX |-> Null, mouseY |-> Null, activeMouseEvent |-> NULL]

\* Every node as its constructor leaves it: the nodes were constructed in
\* NodeOrder, each taking its id from the UID generator, and no callback has
\* been set.
Constructed ==
    /\ parent = [n \in Nodes |-> NULL]
    /\ children = NoChildren
    /\ props = [n \in Nodes |-> DefaultProps]
    /\ cacheCanvas = [n \in Nodes |-> Null]
    /\ cacheOffset = [n \in Nodes |-> [x |-> 0, y |-> 0]]
    /\ id = [n \in Nodes |-> CHOOSE i \in 0..(Len(NodeOrder) - 1) : NodeOrder[i + 1] = n]
    /\ uid = Len(NodeOrder)
    /\ mouse = [n \in Stages |-> NoMouse]
    /\ handlers = [n \in Nodes |-> {}]

\* No stage has a canvas, and the page has none.
NoStage ==
    /\ canvas = [n \in Stages |-> NULL]
    /\ surface = [c \in {} |-> Null]
    /\ autoClear = [n \in Stages |-> TRUE]
    /\ tmpCanvas = [n \in Stages |-> Null]
    /\ calls = <<>>

InitTree ==
    /\ Constructed
    /\ NoStage
    /\ content = [n \in Nodes |-> {}]
    /\ cachedFrom = [n \in Nodes |-> {}]
    /\ op = NoOp
    /\ ret = Undefined

NextTree ==
    \/ \E p \in TreeNodes, c \in TreeNodes : addChild(p, c)
    \/ \E p \in TreeNodes, c \in TreeNodes : removeChild(p, c)
    \/ \E n \in TreeNodes, t \in Transforms : SetTransform(n, t)
    \/ \E n \in TreeNodes : CallGetConcatenatedMatrix(n)
    \/ \E n \in TreeNodes, x \in Coords, y \in Coords : CallLocalToGlobal(n, x, y)
    \/ \E n \in TreeNodes, x \in Coords, y \in Coords : CallGlobalToLocal(n, x, y)
    \/ \E n \in TreeNodes, x \in Coords, y \in Coords, t \in TreeNodes :
          CallLocalToLocal(n, x, y, t)

SpecTree == InitTree /\ [][NextTree]_vars

\* The node's parent chain ends at a Stage.
OnStage(n) == getStage(n) # NULL

\* The transform from the node's space to the space of the top of its chain
\* can be inverted.
Invertible(n) == Determinant(ClimbParents(n, Matrix2D_identity).mtx) # 0

ArgPoint == PointVal(Rat(op.x, 1), Rat(op.y, 1))

-----------------------------------------------------------------------------
(* Coordinate conversion: claims *)

\* C1: for a node whose parent chain does not end at a Stage,
\* getConcatenatedMatrix, localToGlobal and globalToLocal return null.
C1_DetachedReturnsNull ==
    (/\ op.name \in {"getConcatenatedMatrix", "localToGlobal", "globalToLocal"}
     /\ ~OnStage(op.this))
    => IsNull(ret)

\* C6: on a node under a Stage whose concatenated matrix can be inverted,
\* globalToLocal of the point localToGlobal returned gives back the point
\* localToGlobal was called with.
C6_InverseLaw ==
    (/\ op.name = "localToGlobal"
     /\ OnStage(op.this)
     /\ Invertible(op.this))
    => /\ IsPoint(ret)
       /\ globalToLocal(op.this, ret.x, ret.y) = ArgPoint

\* A node two levels under the Stage, rotated, under a scaled ancestor,
\* whose localToGlobal moved the point.
C6_Witness ==
    /\ op.name = "localToGlobal"
    /\ OnStage(op.this)
    /\ Invertible(op.this)
    /\ parent[op.this] # NULL
    /\ parent[parent[op.this]] # NULL
    /\ props[op.this].rotation # 0
    /\ props[parent[op.this]].scaleX \notin {0, 1}
    /\ op.x # 0
    /\ IsPoint(ret)
    /\ ret # ArgPoint

\* C7: globalToLocal on a node under a Stage whose concatenated matrix
\* cannot be inverted returns null and raises nothing.
C7_SingularReturnsNull ==
    (/\ op.name = "globalToLocal"
     /\ OnStage(op.this)
     /\ ~Invertible(op.this))
    => IsNull(ret)

\* A leg of localToLocal fails: the source is not under a Stage, or the
\* target is not, or the target's concatenated matrix cannot be inverted.
LegFails(source, target) ==
    \/ ~OnStage(source)
    \/ ~OnStage(target)
    \/ ~Invertible(target)

\* C8: localToLocal returns null, raising nothing, when a leg fails, and
\* otherwise what target.globalToLocal gives for this.localToGlobal(x, y).
C8_FailedLegReturnsNull ==
    op.name = "localToLocal"
    => IF LegFails(op.this, op.target)
       THEN IsNull(ret)
       ELSE LET pt == localToGlobal(op.this, Rat(op.x, 1), Rat(op.y, 1))
            IN ret = globalToLocal(op.target, pt.x, pt.y)

-----------------------------------------------------------------------------
(* The host's canvas: a bitmap of width x height pixels and its 2D         *)
(* context's current transform, ctm.  pixels holds <<x, y, colour>> for    *)
(* every pixel that is not transparent.                                    *)

\* Width and height of a surface that receives a draw.
SurfaceSize == 3

\* Largest width and height of a cache.
MaxSize == 2

Canvas(w, h) ==
    [tag |-> "canvas", width |-> w, height |-> h, pixels |-> {},
     ctm |-> Matrix2D_identity,
     globalCompositeOperation |-> "source-over", fillStyle |-> "black"]

\* document.createElement("canvas"): 300 x 150 until it is sized.
CreateCanvas == Canvas(300, 150)

\* canvas.width = w: assigning a dimension clears the bitmap and resets the
\* context.
SetWidth(cv, w) == [Canvas(w, cv.height) EXCEPT !.tag = cv.tag]

SetHeight(cv, h) == [Canvas(cv.width, h) EXCEPT !.tag = cv.tag]

InBounds(cv, px) ==
    /\ 0 <= px[1] /\ px[1] < cv.width
    /\ 0 <= px[2] /\ px[2] < cv.height

\* The pixels of new laid over those of old.
Over(old, new) ==
    new \cup {q \in old : \A r \in new : <<r[1], r[2]>> # <<q[1], q[2]>>}

\* Where the current transform puts the point (x, y).
MapPoint(m, x, y) ==
    <<(m.a * x + m.c * y + m.tx) \div m.den, (m.b * x + m.d * y + m.ty) \div m.den>>

\* The bitmap after the pixels drawn are composited onto it: over what is
\* there, or, with "destination-over", behind it.
Composite(cv, drawn) ==
    LET inside == {q \in drawn : InBounds(cv, q)}
    IN IF cv.globalCompositeOperation = "destination-over"
       THEN Over(inside, cv.pixels)
       ELSE Over(cv.pixels, inside)

\* Paint the points pts in colour c through the current transform.
Ctx_paint(cv, pts, c) ==
    LET drawn == {<<MapPoint(cv.ctm, p[1], p[2])[1],
                    MapPoint(cv.ctm, p[1], p[2])[2], c>> : p \in pts}
    IN [cv EXCEPT !.pixels = Composite(cv, drawn)]

RectPoints(x, y, w, h) == (x..(x + w - 1)) \X (y..(y + h - 1))

\* ctx.fillRect(x, y, w, h)
Ctx_fillRect(cv, x, y, w, h) == Ctx_paint(cv, RectPoints(x, y, w, h), cv.fillStyle)

\* ctx.clearRect(x, y, w, h)
Ctx_clearRect(cv, x, y, w, h) ==
    LET cleared == {MapPoint(cv.ctm, p[1], p[2]) : p \in RectPoints(x, y, w, h)}
    IN [cv EXCEPT !.pixels = {q \in @ : <<q[1], q[2]>> \notin cleared}]

\* ctx.getImageData(x, y, w, h): the pixels of the rectangle, whatever the
\* transform.
Ctx_getImageData(cv, x, y, w, h) ==
    [x |-> x, y |-> y, width |-> w, height |-> h,
     pixels |-> {q \in cv.pixels : <<q[1], q[2]>> \in RectPoints(x, y, w, h)}]

\* ctx.putImageData(data, 0, 0): the rectangle's pixels become those of data,
\* whatever the transform and the compositing.
Ctx_putImageData(cv, data) ==
    [cv EXCEPT !.pixels =
        {q \in data.pixels : InBounds(cv, q)}
        \cup {q \in @ : <<q[1], q[2]>> \notin
                          RectPoints(data.x, data.y, data.width, data.height)}]

\* canvas.toDataURL(mimeType): the bitmap as it is now.
ToDataURL(cv, mimeType) ==
    [tag |-> "dataURL", mimeType |-> mimeType, width |-> cv.width,
     height |-> cv.height, pixels |-> cv.pixels]

\* ctx.translate(x, y)
Ctx_translate(cv, x, y) ==
    [cv EXCEPT !.ctm = Matrix2D_append(@, 1, 0, 0, 1, Rat(x, 1), Rat(y, 1))]

\* ctx.drawImage(image, dx, dy)
Ctx_drawImage(cv, image, dx, dy) ==
    LET drawn == {<<MapPoint(cv.ctm, q[1] + dx, q[2] + dy)[1],
                    MapPoint(cv.ctm, q[1] + dx, q[2] + dy)[2], q[3]>> :
                  q \in image.pixels}
    IN [cv EXCEPT !.pixels = Composite(cv, drawn)]

-----------------------------------------------------------------------------
(* DisplayObject: drawing and caching *)

\* isVisible that does not look at the scale.
isVisible_ignoresScale(this) ==
    /\ props[this].visible
    /\ RatPositive(props[this].alpha)

\* this.isVisible()
isVisible(this) ==
    /\ props[this].visible
    /\ RatPositive(props[this].alpha)
    /\ props[this].scaleX # 0
    /\ props[this].scaleY # 0

\* draw that never takes the cache path.
draw_ignoresCache(this, ctx, ignoreCache) ==
    [handled |-> FALSE, ctx |-> ctx]

\* draw that blits the cache without translating by the cache offset.
draw_noTranslate(this, ctx, ignoreCache) ==
    IF ignoreCache \/ IsNull(cacheCanvas[this])
    THEN [handled |-> FALSE, ctx |-> ctx]
    ELSE [handled |-> TRUE, ctx |-> Ctx_drawImage(ctx, cacheCanvas[this], 0, 0)]

\* DisplayObject.prototype.draw(ctx, ignoreCache): the context after the
\* call and whether the draw was handled.
draw(this, ctx, ignoreCache) ==
    IF ignoreCache \/ IsNull(cacheCanvas[this])
    THEN [handled |-> FALSE, ctx |-> ctx]
    ELSE LET c1 == Ctx_translate(ctx, cacheOffset[this].x, cacheOffset[this].y)
             c2 == Ctx_drawImage(c1, cacheCanvas[this], 0, 0)
             c3 == Ctx_translate(c2, 0 - cacheOffset[this].x, 0 - cacheOffset[this].y)
         IN [handled |-> TRUE, ctx |-> c3]

\* The draw of a concrete leaf: the base draw first, its own drawing only
\* when that did not handle it.  A node paints in its own colour, its name.
Shape_draw(this, ctx, ignoreCache) ==
    LET r == draw(this, ctx, ignoreCache)
    IN IF r.handled
       THEN r
       ELSE [handled |-> TRUE, ctx |-> Ctx_paint(ctx, content[this], this)]

\* The node's transform as a matrix of its own.
LocalMatrix(n) ==
    Matrix2D_prependTransform(Matrix2D_identity, props[n].x, props[n].y,
                              props[n].scaleX, props[n].scaleY,
                              props[n].rotation, props[n].regX, props[n].regY)

\* child.updateContext(ctx): the child's transform goes onto the context.
updateContext(n, ctx) ==
    LET l == LocalMatrix(n)
    IN [ctx EXCEPT !.ctm = Matrix2D_append(@, l.a, l.b, l.c, l.d,
                                           Rat(l.tx, 1), Rat(l.ty, 1))]

\* n.revertContext(): the context gets back the transform it had.
revertContext(ctx, before) == [ctx EXCEPT !.ctm = before.ctm]

RECURSIVE NodeDraw(_, _, _)
RECURSIVE DrawChildren(_, _, _)

\* The children from index i on, back to front, each under its own
\* transform; one that is not visible is skipped.
DrawChildren(kids, i, ctx) ==
    IF i > Len(kids)
    THEN ctx
    ELSE IF ~isVisible(kids[i])
    THEN DrawChildren(kids, i + 1, ctx)
    ELSE LET c1 == updateContext(kids[i], ctx)
             c2 == NodeDraw(kids[i], c1, FALSE).ctx
         IN DrawChildren(kids, i + 1, revertContext(c2, ctx))

\* The draw of a container: the base draw first, then its children.
Container_draw(this, ctx, ignoreCache) ==
    LET r == draw(this, ctx, ignoreCache)
    IN IF r.handled
       THEN r
       ELSE [handled |-> TRUE, ctx |-> DrawChildren(children[this], 1, ctx)]

\* this.draw(ctx, ignoreCache) as the node's constructor defines it.
NodeDraw(this, ctx, ignoreCache) ==
    IF IsContainer(this)
    THEN Container_draw(this, ctx, ignoreCache)
    ELSE Shape_draw(this, ctx, ignoreCache)

\* cache that sizes the canvas without its context being reset: the
\* translation of the call before stays on it.
cache_keepsTranslation(this, x, y, width, height) ==
    LET c0 == IF IsNull(cacheCanvas[this]) THEN CreateCanvas ELSE cacheCanvas[this]
        c1 == [c0 EXCEPT !.width = width, !.height = height, !.pixels = {}]
        c2 == Ctx_translate(c1, 0 - x, 0 - y)
        c3 == NodeDraw(this, c2, TRUE).ctx
    IN [cacheCanvas |-> c3, cacheOffset |-> [x |-> x, y |-> y],
        calls |-> (IF IsNull(cacheCanvas[this]) THEN <<"createElement">> ELSE <<>>)
                  \o <<"draw(ctx, true)">>]

\* this.cache(x, y, width, height): the new cacheCanvas and cache offset,
\* and what the call called, in order.
cache(this, x, y, width, height) ==
    LET c0 == IF IsNull(cacheCanvas[this]) THEN CreateCanvas ELSE cacheCanvas[this]
        c1 == SetHeight(SetWidth(c0, width), height)
        c2 == Ctx_translate(c1, 0 - x, 0 - y)
        c3 == NodeDraw(this, c2, TRUE).ctx
    IN [cacheCanvas |-> c3, cacheOffset |-> [x |-> x, y |-> y],
        calls |-> (IF IsNull(cacheCanvas[this]) THEN <<"createElement">> ELSE <<>>)
                  \o <<"draw(ctx, true)">>]

\* uncache that leaves the cache canvas in place.
uncache_keepsCanvas(this) ==
    [cacheCanvas |-> cacheCanvas[this], cacheOffset |-> cacheOffset[this]]

\* this.uncache(): it assigns cacheOffsetX/cacheOffsetY, which are not the
\* _cacheOffsetX/_cacheOffsetY that draw reads; those keep their values.
uncache(this) ==
    [cacheCanvas |-> Null, cacheOffset |-> cacheOffset[this]]

-----------------------------------------------------------------------------
(* Caching a node and drawing it *)

CacheNodes == {"shapeA"}

\* The drawings a leaf's own drawing code can hold.
Drawings == SUBSET {<<0, 0>>, <<1, 0>>, <<1, 1>>}

\* The corners a cache rectangle can start at, and where on the receiving
\* surface a draw can be placed.
CacheOrigins == {-1, 0, 1}

DrawOrigins == {0, 1}

DrawOp(this, x, y, ignoreCache) ==
    [name |-> "draw", this |-> this, x |-> x, y |-> y, ignoreCache |-> ignoreCache]

\* A draw onto a fresh surface changes nothing of the node, so what can follow
\* it is what can follow the state it was called in: a behaviour records one
\* such draw, the last thing it does.
Drawn == op.name \in {"draw", "baseDraw"}

CacheOp(this, x, y, width, height) ==
    [name |-> "cache", this |-> this, x |-> x, y |-> y,
     width |-> width, height |-> height]

CallCache(n, x, y, w, h) ==
    /\ ~Drawn
    /\ LET r == cache(n, x, y, w, h)
       IN /\ cacheCanvas' = [cacheCanvas EXCEPT ![n] = r.cacheCanvas]
          /\ cacheOffset' = [cacheOffset EXCEPT ![n] = r.cacheOffset]
          /\ calls' = r.calls
    /\ cachedFrom' = [cachedFrom EXCEPT ![n] = content[n]]
    /\ op' = CacheOp(n, x, y, w, h)
    /\ ret' = Undefined
    /\ UNCHANGED <<content, treeVars, canvas, surface, autoClear, tmpCanvas, pageVars>>

CallUncache(n) ==
    /\ ~Drawn
    /\ LET r == uncache(n)
       IN /\ cacheCanvas' = [cacheCanvas EXCEPT ![n] = r.cacheCanvas]
          /\ cacheOffset' = [cacheOffset EXCEPT ![n] = r.cacheOffset]
    /\ op' = Op("uncache", n, 0, 0, NULL)
    /\ ret' = Undefined
    /\ UNCHANGED <<content, cachedFrom, treeVars, stageVars, pageVars>>

\* The application changes what the node's own drawing code paints.
SetContent(n, d) ==
    /\ ~Drawn
    /\ d # content[n]
    /\ content' = [content EXCEPT ![n] = d]
    /\ op' = Op("setContent", n, 0, 0, NULL)
    /\ ret' = Undefined
    /\ UNCHANGED <<cacheCanvas, cacheOffset, cachedFrom, treeVars, stageVars, pageVars>>

\* A fresh surface whose context is translated by (dx, dy).
FreshSurface(dx, dy) == Ctx_translate(Canvas(SurfaceSize, SurfaceSize), dx, dy)

\* n.draw(ctx, ignoreCache) onto a fresh surface.
CallDraw(n, ignoreCache, dx, dy) ==
    /\ ~Drawn
    /\ LET r == NodeDraw(n, FreshSurface(dx, dy), ignoreCache)
       IN ret' = [tag |-> "drawn", handled |-> r.handled,
                  pixels |-> r.ctx.pixels, ctm |-> r.ctx.ctm]
    /\ op' = DrawOp(n, dx, dy, ignoreCache)
    /\ UNCHANGED <<cacheVars, treeVars, stageVars, pageVars>>

\* DisplayObject.prototype.draw.call(n, ctx, ignoreCache), the base draw,
\* onto a fresh surface.
CallBaseDraw(n, ignoreCache, dx, dy) ==
    /\ ~Drawn
    /\ LET r == draw(n, FreshSurface(dx, dy), ignoreCache)
       IN ret' = [tag |-> "drawn", handled |-> r.handled,
                  pixels |-> r.ctx.pixels, ctm |-> r.ctx.ctm]
    /\ op' = [DrawOp(n, dx, dy, ignoreCache) EXCEPT !.name = "baseDraw"]
    /\ UNCHANGED <<cacheVars, treeVars, stageVars, pageVars>>

InitCache ==
    /\ Constructed
    /\ NoStage
    /\ content = [n \in Nodes |-> {}]
    /\ cachedFrom = [n \in Nodes |-> {}]
    /\ op = NoOp
    /\ ret = Undefined

NextCache ==
    \/ \E n \in CacheNodes, x \in CacheOrigins, y \in CacheOrigins,
          w \in 1..MaxSize, h \in 1..MaxSize : CallCache(n, x, y, w, h)
    \/ \E n \in CacheNodes : CallUncache(n)
    \/ \E n \in CacheNodes, d \in Drawings : SetContent(n, d)
    \/ \E n \in CacheNodes, i \in BOOLEAN, dx \in DrawOrigins, dy \in DrawOrigins :
          CallDraw(n, i, dx, dy)
    \/ \E n \in CacheNodes, i \in BOOLEAN, dx \in DrawOrigins, dy \in DrawOrigins :
          CallBaseDraw(n, i, dx, dy)

SpecCache == InitCache /\ [][NextCache]_vars

-----------------------------------------------------------------------------
(* Caching: claims *)

Cached(n) == ~IsNull(cacheCanvas[n])

\* The local point p lies in the rectangle the node's cache was made of.
InCacheRect(n, p) ==
    /\ cacheOffset[n].x <= p[1] /\ p[1] < cacheOffset[n].x + cacheCanvas[n].width
    /\ cacheOffset[n].y <= p[2] /\ p[2] < cacheOffset[n].y + cacheCanvas[n].height

\* The pixels a surface shows once the local points pts, in colour c, are
\* drawn on it at (dx, dy).
Shown(pts, c, dx, dy) ==
    {q \in {<<p[1] + dx, p[2] + dy, c>> : p \in pts} :
        /\ 0 <= q[1] /\ q[1] < SurfaceSize
        /\ 0 <= q[2] /\ q[2] < SurfaceSize}

\* The last operation drew a cached node through its cache.
DrewFromCache ==
    /\ op.name = "draw"
    /\ ~op.ignoreCache
    /\ Cached(op.this)

\* C4: while a node is cached, its cache holds what the node's content was
\* at the last cache() call, within the cached rectangle, whatever the
\* content has become since, and a draw with ignoreCache false shows exactly
\* that snapshot.
C4_StaleSnapshot ==
    /\ \A n \in CacheNodes :
          Cached(n) =>
             cacheCanvas[n].pixels =
                {<<p[1] - cacheOffset[n].x, p[2] - cacheOffset[n].y, n>> :
                    p \in {q \in cachedFrom[n] : InCacheRect(n, q)}}
    /\ DrewFromCache =>
          /\ ret.handled
          /\ ret.pixels =
                Shown({q \in cachedFrom[op.this] : InCacheRect(op.this, q)},
                      op.this, op.x, op.y)

\* A cached node whose content changed after cache() was drawn: the surface
\* shows the old content, which is not what the new content would show.
C4_Witness ==
    /\ DrewFromCache
    /\ content[op.this] # cachedFrom[op.this]
    /\ ret.pixels # {}
    /\ ret.pixels # Shown(content[op.this], op.this, op.x, op.y)
    /\ Shown(content[op.this], op.this, op.x, op.y) # {}

\* What drawing the node live, draw(ctx, true), shows on the same surface.
LivePixels == NodeDraw(op.this, FreshSurface(op.x, op.y), TRUE).ctx.pixels

\* C5, as claimed: with the content unchanged since cache(), drawing through
\* the cache shows the same pixels at the same places as drawing live.
C5_CacheEqualsLive ==
    (DrewFromCache /\ content[op.this] = cachedFrom[op.this])
    => ret.pixels = LivePixels

\* C5, amended: with the content unchanged since cache(), drawing through the
\* cache shows the pixels of the live draw that come from the cached
\* rectangle, at the same places, and no others.
C5_CacheEqualsLiveInRect ==
    (DrewFromCache /\ content[op.this] = cachedFrom[op.this])
    => ret.pixels =
          {q \in LivePixels : InCacheRect(op.this, <<q[1] - op.x, q[2] - op.y>>)}

\* A cache made away from the origin, holding part of the content, drawn at
\* an offset.
C5_Witness ==
    /\ DrewFromCache
    /\ content[op.this] = cachedFrom[op.this]
    /\ cacheOffset[op.this].x # 0
    /\ op.x # 0
    /\ ret.pixels # {}
    /\ ret.pixels # LivePixels

-----------------------------------------------------------------------------
(* Stage: rendering, clearing and image export *)

CanvasIds == {"canvas1"}

Colours == {"black", "white"}

CompositeOperations == {"source-over", "destination-over"}

MimeTypes == {NULL, "image/jpeg"}

ToImageOp(this, mimeType, backgroundColor) ==
    [name |-> "toImage", this |-> this, mimeType |-> mimeType,
     backgroundColor |-> backgroundColor]

\* this.clear(), called on a stage that has a canvas: the canvas after it.
ClearedCanvas(this) ==
    LET cv == surface[canvas[this]]
    IN Ctx_clearRect(cv, 0, 0, cv.width, cv.height)

\* update that goes on without a canvas: this.canvas.getContext raises.
update_noGuard(this) ==
    /\ canvas[this] = NULL
    /\ op' = Op("update", this, 0, 0, NULL)
    /\ ret' = Raise("TypeError")
    /\ calls' = <<>>
    /\ UNCHANGED <<canvas, surface, autoClear, tmpCanvas, treeVars, cacheVars, pageVars>>

\* update that renders without ever clearing.
update_on_neverClears(this, surf) ==
    IF canvas[this] = NULL
    THEN [surface |-> surf, calls |-> <<>>]
    ELSE LET cv == surf[canvas[this]]
             c2 == updateContext(this, cv)
             c3 == NodeDraw(this, c2, FALSE).ctx
         IN [surface |-> [surf EXCEPT ![canvas[this]] = revertContext(c3, cv)],
             calls |-> <<"updateContext", "draw", "revertContext">>]

\* The body of update() run on the canvases surf: the canvases after it and
\* what it called, in order.
update_on(this, surf) ==
    IF canvas[this] = NULL
    THEN [surface |-> surf, calls |-> <<>>]
    ELSE LET cv == surf[canvas[this]]
             c1 == IF autoClear[this]
                   THEN Ctx_clearRect(cv, 0, 0, cv.width, cv.height)
                   ELSE cv
             c2 == updateContext(this, c1)
             c3 == NodeDraw(this, c2, FALSE).ctx
             c4 == revertContext(c3, c1)
         IN [surface |-> [surf EXCEPT ![canvas[this]] = c4],
             calls |-> (IF autoClear[this] THEN <<"clear">> ELSE <<>>)
                       \o <<"updateContext", "draw", "revertContext">>]

\* this.update(), also this.tick()
update(this) ==
    /\ op' = Op("update", this, 0, 0, NULL)
    /\ ret' = Undefined
    /\ surface' = update_on(this, surface).surface
    /\ calls' = update_on(this, surface).calls
    /\ UNCHANGED <<canvas, autoClear, tmpCanvas, treeVars, cacheVars, pageVars>>

\* this.clear()
clear(this) ==
    /\ op' = Op("clear", this, 0, 0, NULL)
    /\ ret' = Undefined
    /\ IF canvas[this] = NULL
       THEN /\ calls' = <<>>
            /\ UNCHANGED surface
       ELSE /\ surface' = [surface EXCEPT ![canvas[this]] = ClearedCanvas(this)]
            /\ calls' = <<"clearRect">>
    /\ UNCHANGED <<canvas, autoClear, tmpCanvas, treeVars, cacheVars, pageVars>>

\* toImage that does not put the saved pixels back.
toImage_noRestore(this, mimeType, backgroundColor) ==
    /\ canvas[this] # NULL
    /\ backgroundColor # NULL
    /\ op' = ToImageOp(this, mimeType, backgroundColor)
    /\ LET cv == surface[canvas[this]]
           c1 == [cv EXCEPT !.globalCompositeOperation = "destination-over",
                            !.fillStyle = backgroundColor]
           c2 == Ctx_fillRect(c1, 0, 0, cv.width, cv.height)
       IN /\ ret' = ToDataURL(c2, "image/png")
          /\ surface' = [surface EXCEPT ![canvas[this]] =
                           [c2 EXCEPT !.globalCompositeOperation =
                                         cv.globalCompositeOperation]]
    /\ UNCHANGED <<canvas, autoClear, tmpCanvas, calls, treeVars, cacheVars, pageVars>>

\* this.toImage(mimeType, backgroundColor)
toImage(this, mimeType, backgroundColor) ==
    /\ op' = ToImageOp(this, mimeType, backgroundColor)
    /\ IF canvas[this] = NULL
       THEN /\ ret' = Raise("TypeError")
            /\ UNCHANGED surface
       ELSE LET mime == IF mimeType = NULL THEN "image/png" ELSE mimeType
                cv == surface[canvas[this]]
                w == cv.width
                h == cv.height
                data == Ctx_getImageData(cv, 0, 0, w, h)
                compositeOperation == cv.globalCompositeOperation
                c1 == IF backgroundColor # NULL
                      THEN Ctx_fillRect(
                              [cv EXCEPT !.globalCompositeOperation = "destination-over",
                                         !.fillStyle = backgroundColor],
                              0, 0, w, h)
                      ELSE cv
                imageData == ToDataURL(c1, mime)
                c2 == IF backgroundColor # NULL
                      THEN [Ctx_putImageData(Ctx_clearRect(c1, 0, 0, w, h), data)
                              EXCEPT !.globalCompositeOperation = compositeOperation]
                      ELSE c1
            IN /\ ret' = imageData
               /\ surface' = [surface EXCEPT ![canvas[this]] = c2]
    /\ UNCHANGED <<canvas, autoClear, tmpCanvas, calls, treeVars, cacheVars, pageVars>>

\* The application assigns stage.canvas.
SetCanvas(this, c) ==
    /\ c # canvas[this]
    /\ canvas' = [canvas EXCEPT ![this] = c]
    /\ op' = Op("setCanvas", this, 0, 0, NULL)
    /\ ret' = Undefined
    /\ UNCHANGED <<surface, autoClear, tmpCanvas, calls, treeVars, cacheVars, pageVars>>

\* The application assigns stage.autoClear.
SetAutoClear(this, b) ==
    /\ b # autoClear[this]
    /\ autoClear' = [autoClear EXCEPT ![this] = b]
    /\ op' = Op("setAutoClear", this, 0, 0, NULL)
    /\ ret' = Undefined
    /\ UNCHANGED <<canvas, surface, tmpCanvas, calls, treeVars, cacheVars, pageVars>>

\* The application sets the fill style and the compositing of a canvas's
\* context.
AppSetContext(c, colour, operation) ==
    /\ surface' = [surface EXCEPT ![c] =
                     [@ EXCEPT !.fillStyle = colour,
                               !.globalCompositeOperation = operation]]
    /\ surface' # surface
    /\ op' = Op("setContext", c, 0, 0, NULL)
    /\ ret' = Undefined
    /\ UNCHANGED <<canvas, autoClear, tmpCanvas, calls, treeVars, cacheVars, pageVars>>

\* The application fills one pixel of a canvas itself: ctx.fillRect(x, y, 1, 1).
AppFill(c, x, y) ==
    /\ surface' = [surface EXCEPT ![c] = Ctx_fillRect(@, x, y, 1, 1)]
    /\ op' = Op("fill", c, 0, 0, NULL)
    /\ ret' = Undefined
    /\ UNCHANGED <<canvas, autoClear, tmpCanvas, calls, treeVars, cacheVars, pageVars>>

\* The drawings that lie on the top pixel row.
RowDrawings == {d \in Drawings : \A p \in d : p[2] = 0}

\* new Stage(canvas), on a page with one canvas.
InitStage ==
    /\ Constructed
    /\ content = [n \in Nodes |-> {}]
    /\ cachedFrom = [n \in Nodes |-> {}]
    /\ canvas = [n \in Stages |-> "canvas1"]
    /\ surface = [c \in CanvasIds |-> Canvas(SurfaceSize, 1)]
    /\ autoClear = [n \in Stages |-> TRUE]
    /\ tmpCanvas = [n \in Stages |-> Null]
    /\ calls = <<>>
    /\ op = NoOp
    /\ ret = Undefined

NextStage ==
    \/ \E s \in MainStages : update(s)
    \/ \E s \in MainStages : clear(s)
    \/ \E s \in MainStages, m \in MimeTypes, b \in Colours \cup {NULL} : toImage(s, m, b)
    \/ \E s \in MainStages, c \in CanvasIds \cup {NULL} : SetCanvas(s, c)
    \/ \E s \in MainStages, b \in BOOLEAN : SetAutoClear(s, b)
    \/ \E c \in CanvasIds, k \in Colours, o \in CompositeOperations :
          AppSetContext(c, k, o)
    \/ \E c \in CanvasIds, x \in DrawOrigins : AppFill(c, x, 0)
    \/ \E s \in MainStages : addChild(s, "shapeA")
    \/ \E s \in MainStages : removeChild(s, "shapeA")
    \/ \E d \in RowDrawings : SetContent("shapeA", d)

SpecStage == InitStage /\ [][NextStage]_vars

-----------------------------------------------------------------------------
(* Stage: claims *)

\* The pixels of the canvas a stage renders to.
StagePixels(s) == surface[canvas[s]].pixels

\* C9: a toImage call with a backgroundColor leaves every pixel of the
\* stage's canvas as it was before the call.
C9_ToImageKeepsPixels ==
    [][(/\ op'.name = "toImage"
        /\ op'.backgroundColor # NULL
        /\ canvas[op'.this] # NULL)
       => surface'[canvas[op'.this]].pixels = surface[canvas[op'.this]].pixels]_vars

\* toImage with a backgroundColor returned an image that shows the
\* background where the canvas, which holds something, is transparent.
C9_Witness ==
    /\ op.name = "toImage"
    /\ op.backgroundColor # NULL
    /\ canvas[op.this] # NULL
    /\ StagePixels(op.this) # {}
    /\ ret.tag = "dataURL"
    /\ \E q \in ret.pixels :
          /\ q[3] = op.backgroundColor
          /\ \A r \in StagePixels(op.this) : <<r[1], r[2]>> # <<q[1], q[2]>>

\* C10: on a stage without a canvas, update (tick) and clear raise nothing,
\* call nothing (no clear, no updateContext, no draw) and change nothing.
C10_UnboundIsNoOp ==
    [][(/\ op'.name \in {"update", "clear"}
        /\ canvas[op'.this] = NULL)
       => /\ ret' = Undefined
          /\ calls' = <<>>
          /\ UNCHANGED <<canvas, surface, autoClear, tmpCanvas, treeVars, cacheVars, pageVars>>]_vars

\* update ran on a stage without a canvas that has a child with something to
\* draw, while the canvas it had still shows pixels.
C10_Witness ==
    /\ op.name = "update"
    /\ canvas[op.this] = NULL
    /\ ret = Undefined
    /\ calls = <<>>
    /\ \E c \in DOMAIN surface : surface[c].pixels # {}
    /\ \E k \in 1..Len(children[op.this]) : content[children[op.this][k]] # {}

-----------------------------------------------------------------------------
(* Hit-testing *)

\* Container.mouseChildren: a Stage sets it in initialize; it is off
\* otherwise.
mouseChildren(n) == Kind(n) = "Stage"

\* The pixel (x, y) of the canvas is not transparent.
TestHit(cv, x, y) == \E q \in cv.pixels : q[1] = x /\ q[2] = y

RECURSIVE Container_getObjectsUnderPoint(_, _, _, _, _, _)
RECURSIVE HitChildren(_, _, _, _, _, _, _)

\* The children from index i down to the first, front to back.  A child that
\* is not visible or not mouse-enabled is skipped; a container with
\* mouseChildren is descended into; any other child is drawn alone, without
\* its cache, under its transform, and the pixel under the point decides.
\* With an array every hit is pushed; without, the first hit is returned.
HitChildren(kids, i, x, y, ctx, hasArr, arr) ==
    IF i < 1
    THEN [results |-> NULL, arr |-> arr]
    ELSE LET child == kids[i]
         IN IF ~isVisible(child) \/ ~props[child].mouseEnabled
            THEN HitChildren(kids, i - 1, x, y, ctx, hasArr, arr)
            ELSE IF IsContainer(child) /\ mouseChildren(child)
            THEN LET r == Container_getObjectsUnderPoint(
                             child, x, y, updateContext(child, ctx), hasArr, arr)
                 IN IF r.results # NULL
                    THEN r
                    ELSE HitChildren(kids, i - 1, x, y, ctx, hasArr, r.arr)
            ELSE LET drawn == NodeDraw(child, updateContext(child, ctx), TRUE).ctx
                 IN IF ~TestHit(drawn, x, y)
                    THEN HitChildren(kids, i - 1, x, y, ctx, hasArr, arr)
                    ELSE IF hasArr
                    THEN HitChildren(kids, i - 1, x, y, ctx, hasArr, Append(arr, child))
                    ELSE [results |-> child, arr |-> arr]

\* Container.prototype._getObjectsUnderPoint(x, y, ctx, arr)
Container_getObjectsUnderPoint(this, x, y, ctx, hasArr, arr) ==
    HitChildren(children[this], Len(children[this]), x, y, ctx, hasArr, arr)

\* A query that leaves the stage's transform on the offscreen context.
Stage_getObjectsUnderPoint_noRevert(this, x, y, hasArr, arr) ==
    LET t0 == IF IsNull(tmpCanvas[this]) THEN CreateCanvas ELSE tmpCanvas[this]
        t1 == SetHeight(SetWidth(t0, surface[canvas[this]].width),
                        surface[canvas[this]].height)
        t2 == updateContext(this, t1)
        r == Container_getObjectsUnderPoint(this, x, y, t2, hasArr, arr)
    IN [raised |-> FALSE, results |-> r.results, arr |-> r.arr, tmp |-> t2,
        calls |-> <<"updateContext:hitTest", "_Container_getObjectsUnderPoint">>]

\* A query that makes itself a new offscreen canvas every time and leaves
\* it at the size it is created with.
Stage_getObjectsUnderPoint_reallocates(this, x, y, hasArr, arr) ==
    LET t2 == updateContext(this, CreateCanvas)
        r == Container_getObjectsUnderPoint(this, x, y, t2, hasArr, arr)
    IN [raised |-> FALSE, results |-> r.results, arr |-> r.arr,
        tmp |-> revertContext(t2, CreateCanvas),
        calls |-> <<"createElement", "updateContext:hitTest",
                    "_Container_getObjectsUnderPoint", "revertContext">>]

\* Stage.prototype._getObjectsUnderPoint(x, y, arr): what it returns, the
\* array, and the stage's _tmpCanvas afterwards.
Stage_getObjectsUnderPoint(this, x, y, hasArr, arr) ==
    LET t0 == IF IsNull(tmpCanvas[this]) THEN CreateCanvas ELSE tmpCanvas[this]
        created == IF IsNull(tmpCanvas[this]) THEN <<"createElement">> ELSE <<>>
    IN IF canvas[this] = NULL
       THEN [raised |-> TRUE, results |-> NULL, arr |-> arr, tmp |-> t0,
             calls |-> created]
       ELSE LET t1 == SetHeight(SetWidth(t0, surface[canvas[this]].width),
                                surface[canvas[this]].height)
                t2 == updateContext(this, t1)
                r == Container_getObjectsUnderPoint(this, x, y, t2, hasArr, arr)
                t3 == revertContext(t2, t1)
            IN [raised |-> FALSE, results |-> r.results, arr |-> r.arr, tmp |-> t3,
                calls |-> created \o <<"updateContext:hitTest",
                                       "_Container_getObjectsUnderPoint",
                                       "revertContext">>]

NodeVal(n) == IF n = NULL THEN Null ELSE [tag |-> "node", node |-> n]

ArrayVal(items) == [tag |-> "array", items |-> items]

\* getObjectsUnderPoint that does not hand its array down.
getObjectsUnderPoint_dropsArr(this, x, y) ==
    LET r == Stage_getObjectsUnderPoint(this, x, y, FALSE, <<>>)
    IN /\ op' = Op("getObjectsUnderPoint", this, x, y, NULL)
       /\ ret' = IF r.raised THEN Raise("TypeError") ELSE ArrayVal(<<>>)
       /\ tmpCanvas' = [tmpCanvas EXCEPT ![this] = r.tmp]
       /\ calls' = r.calls
       /\ UNCHANGED <<canvas, surface, autoClear, treeVars, cacheVars, pageVars>>

\* this.getObjectsUnderPoint(x, y)
getObjectsUnderPoint(this, x, y) ==
    LET r == Stage_getObjectsUnderPoint(this, x, y, TRUE, <<>>)
    IN /\ op' = Op("getObjectsUnderPoint", this, x, y, NULL)
       /\ ret' = IF r.raised THEN Raise("TypeError") ELSE ArrayVal(r.arr)
       /\ tmpCanvas' = [tmpCanvas EXCEPT ![this] = r.tmp]
       /\ calls' = r.calls
       /\ UNCHANGED <<canvas, surface, autoClear, treeVars, cacheVars, pageVars>>

\* getObjectUnderPoint that collects every hit and returns the last one.
getObjectUnderPoint_last(this, x, y) ==
    LET r == Stage_getObjectsUnderPoint(this, x, y, TRUE, <<>>)
    IN /\ op' = Op("getObjectUnderPoint", this, x, y, NULL)
       /\ ret' = IF r.raised THEN Raise("TypeError")
                 ELSE IF r.arr = <<>> THEN Null
                 ELSE NodeVal(r.arr[Len(r.arr)])
       /\ tmpCanvas' = [tmpCanvas EXCEPT ![this] = r.tmp]
       /\ calls' = r.calls
       /\ UNCHANGED <<canvas, surface, autoClear, treeVars, cacheVars, pageVars>>

\* this.getObjectUnderPoint(x, y)
getObjectUnderPoint(this, x, y) ==
    LET r == Stage_getObjectsUnderPoint(this, x, y, FALSE, <<>>)
    IN /\ op' = Op("getObjectUnderPoint", this, x, y, NULL)
       /\ ret' = IF r.raised THEN Raise("TypeError") ELSE NodeVal(r.results)
       /\ tmpCanvas' = [tmpCanvas EXCEPT ![this] = r.tmp]
       /\ calls' = r.calls
       /\ UNCHANGED <<canvas, surface, autoClear, treeVars, cacheVars, pageVars>>

\* The application assigns node.mouseEnabled.
SetMouseEnabled(n, b) ==
    /\ b # props[n].mouseEnabled
    /\ props' = [props EXCEPT ![n].mouseEnabled = b]
    /\ op' = Op("set", n, 0, 0, NULL)
    /\ ret' = Undefined
    /\ UNCHANGED <<parent, children>>
    /\ UNCHANGED notTree

\* The application assigns node.x.
SetX(n, x) ==
    /\ x # props[n].x
    /\ props' = [props EXCEPT ![n].x = x]
    /\ op' = Op("set", n, 0, 0, NULL)
    /\ ret' = Undefined
    /\ UNCHANGED <<parent, children>>
    /\ UNCHANGED notTree

Shapes == {"shapeA", "shapeB", "shapeC"}

\* A stage on a canvas and three shapes, each with a drawing of its own, not
\* yet on the stage.
InitHit ==
    /\ Constructed
    /\ content = [n \in Nodes |->
                    CASE n = "shapeA" -> {<<0, 0>>, <<1, 0>>}
                      [] n = "shapeB" -> {<<0, 0>>, <<1, 1>>}
                      [] n = "shapeC" -> {<<0, 0>>, <<0, 1>>}
                      [] OTHER -> {}]
    /\ cachedFrom = [n \in Nodes |-> {}]
    /\ canvas = [n \in Stages |-> "canvas1"]
    /\ surface = [c \in CanvasIds |-> Canvas(SurfaceSize, SurfaceSize)]
    /\ autoClear = [n \in Stages |-> TRUE]
    /\ tmpCanvas = [n \in Stages |-> Null]
    /\ calls = <<>>
    /\ op = NoOp
    /\ ret = Undefined

NextHit ==
    \/ \E s \in MainStages, c \in Shapes : addChild(s, c)
    \/ \E s \in MainStages, c \in Shapes : removeChild(s, c)
    \/ \E n \in Shapes, b \in BOOLEAN : SetMouseEnabled(n, b)
    \/ \E n \in Shapes, x \in DrawOrigins : SetX(n, x)
    \/ \E s \in MainStages, x \in Coords, y \in Coords : getObjectsUnderPoint(s, x, y)
    \/ \E s \in MainStages, x \in Coords, y \in Coords : getObjectUnderPoint(s, x, y)

SpecHit == InitHit /\ [][NextHit]_vars

-----------------------------------------------------------------------------
(* Hit-testing: the claims *)

\* The node, a child of the stage, has a drawn point at (x, y) of the stage.
Covers(n, x, y) ==
    \E p \in content[n] : p[1] + props[n].x = x /\ p[2] + props[n].y = y

\* The visible, mouse-enabled children of the stage that cover the point of
\* the last query, in draw order.
UnderPoint(s) ==
    SelectSeq(children[s],
              LAMBDA n : /\ isVisible(n)
                         /\ props[n].mouseEnabled
                         /\ Covers(n, op.x, op.y))

Reverse(seq) == [i \in 1..Len(seq) |-> seq[Len(seq) + 1 - i]]

HitQueries == {"getObjectsUnderPoint", "getObjectUnderPoint"}

\* The last operation was a hit-test query on a stage with a canvas.
Queried(s) == op.name \in HitQueries /\ op.this = s /\ canvas[s] # NULL

\* The nodes the last query reported.
Reported ==
    IF ret.tag = "array" THEN {ret.items[i] : i \in 1..Len(ret.items)}
    ELSE IF ret.tag = "node" THEN {ret.node}
    ELSE {}

\* C2: getObjectsUnderPoint(x, y) returns the visible, mouse-enabled nodes
\* that cover the point front to back, the reverse of the draw order, and
\* getObjectUnderPoint(x, y) returns the first of that list, or null when the
\* list is empty.
C2_FrontToBack ==
    \A s \in Stages :
        Queried(s) =>
            /\ op.name = "getObjectsUnderPoint" =>
                   ret = ArrayVal(Reverse(UnderPoint(s)))
            /\ op.name = "getObjectUnderPoint" =>
                   ret = IF UnderPoint(s) = <<>>
                         THEN Null
                         ELSE NodeVal(Reverse(UnderPoint(s))[1])

\* Three nodes cover the point and the list has the three.
C2_Witness ==
    /\ op.name = "getObjectsUnderPoint"
    /\ ret.tag = "array"
    /\ Len(ret.items) = 3

\* Child m of the stage is drawn before child n.
Behind(s, m, n) ==
    \E i, j \in 1..Len(children[s]) :
        /\ i < j
        /\ children[s][i] = m
        /\ children[s][j] = n

\* The node is on the stage, covers the point of the last query, and has
\* mouseEnabled false.
DisabledCover(s, n) ==
    /\ parent[n] = s
    /\ ~props[n].mouseEnabled
    /\ Covers(n, op.x, op.y)

\* The node is on the stage, covers the point of the last query, is visible
\* and has mouseEnabled true.
EnabledCover(s, m) ==
    /\ parent[m] = s
    /\ isVisible(m)
    /\ props[m].mouseEnabled
    /\ Covers(m, op.x, op.y)

\* C3: a node with mouseEnabled false that covers the point is in the result
\* of neither query, and does not keep the mouse-enabled visible nodes behind
\* it that cover the point from being reported: the list has every one of
\* them, and the single result is one of the covering mouse-enabled nodes.
C3_DisabledNeverReported ==
    \A s \in Stages : \A n \in Nodes :
        (Queried(s) /\ DisabledCover(s, n)) =>
            /\ n \notin Reported
            /\ \A m \in Nodes :
                   (EnabledCover(s, m) /\ Behind(s, m, n)) =>
                       IF op.name = "getObjectsUnderPoint"
                       THEN m \in Reported
                       ELSE \E r \in Reported : EnabledCover(s, r)

\* A disabled node lies over an enabled one at the point, and the single
\* query returned the enabled one.
C3_Witness ==
    /\ op.name = "getObjectUnderPoint"
    /\ \E s \in Stages : \E n, m \in Nodes :
           /\ DisabledCover(s, n)
           /\ EnabledCover(s, m)
           /\ Behind(s, m, n)
           /\ ret = NodeVal(m)

-----------------------------------------------------------------------------
(* Several stages on one canvas *)

\* The stages in the order the ticker calls them in, from index i on, each
\* running update(): the canvases after the frame.
RECURSIVE TickAll(_, _, _)
TickAll(order, i, surf) ==
    IF i > Len(order)
    THEN surf
    ELSE TickAll(order, i + 1, update_on(order[i], surf).surface)

\* The orders a frame can tick some or all of the stages in.
TickOrders ==
    {o \in UNION {[1..k -> Stages] : k \in 1..Cardinality(Stages)} :
        \A i, j \in DOMAIN o : i # j => o[i] # o[j]}

FrameOp(order) == [name |-> "frame", order |-> order]

\* One frame: the ticker calls tick() on its listeners, one after the other.
Ticker_tick(order) ==
    /\ op' = FrameOp(order)
    /\ ret' = Undefined
    /\ surface' = TickAll(order, 1, surface)
    /\ calls' = update_on(order[Len(order)], surface).calls
    /\ UNCHANGED <<canvas, autoClear, tmpCanvas, treeVars, cacheVars, pageVars>>

\* The shape each stage of the shared canvas shows.
ShapeOf(s) ==
    CASE s = "stage" -> "shapeA"
      [] s = "stageB" -> "shapeB"
      [] OTHER -> "shapeC"

\* Three stages on one canvas, each with a shape of its own to show, none
\* added yet.
InitShared ==
    /\ Constructed
    /\ content = [n \in Nodes |->
                    CASE n = "shapeA" -> {<<0, 0>>}
                      [] n = "shapeB" -> {<<0, 0>>, <<1, 0>>}
                      [] n = "shapeC" -> {<<1, 0>>}
                      [] OTHER -> {}]
    /\ cachedFrom = [n \in Nodes |-> {}]
    /\ canvas = [n \in Stages |-> "canvas1"]
    /\ surface = [c \in CanvasIds |-> Canvas(SurfaceSize, SurfaceSize)]
    /\ autoClear = [n \in Stages |-> TRUE]
    /\ tmpCanvas = [n \in Stages |-> Null]
    /\ calls = <<>>
    /\ op = NoOp
    /\ ret = Undefined

NextShared ==
    \/ \E o \in TickOrders : Ticker_tick(o)
    \/ \E s \in Stages, b \in BOOLEAN : SetAutoClear(s, b)
    \/ \E s \in Stages : addChild(s, ShapeOf(s))
    \/ \E s \in Stages : removeChild(s, ShapeOf(s))
    \/ \E n \in {"shapeA", "shapeB"}, x \in DrawOrigins : SetX(n, x)

SpecShared == InitShared /\ [][NextShared]_vars

\* What a stage, untransformed, with shapes for children, shows on a canvas
\* of its own.
StageOutput(s) ==
    UNION {Shown(content[children[s][k]], children[s][k],
                 props[children[s][k]].x, props[children[s][k]].y) :
           k \in 1..Len(children[s])}

\* The part of the output of the i-th stage ticked that no stage ticked
\* after it draws over.
VisiblePart(order, i) ==
    {q \in StageOutput(order[i]) :
        \A j \in (i + 1)..Len(order) : \A r \in StageOutput(order[j]) :
            <<r[1], r[2]>> # <<q[1], q[2]>>}

\* No stage ticked after the i-th clears.
NoLaterClear(order, i) == \A j \in (i + 1)..Len(order) : ~autoClear[order[j]]

\* C11: after a frame in which several stages rendered to one canvas, the
\* canvas shows what a stage drew (where no later stage drew over it) if and
\* only if no stage ticked after it has autoClear on; a later stage with
\* autoClear on leaves nothing of what the stages before it drew.
C11_SharedSurface ==
    op.name = "frame" =>
        \A i \in 1..Len(op.order) :
            LET shown == surface[canvas[op.order[i]]].pixels
            IN /\ VisiblePart(op.order, i) # {} =>
                     (VisiblePart(op.order, i) \subseteq shown
                          <=> NoLaterClear(op.order, i))
               /\ ~NoLaterClear(op.order, i) =>
                     \A q \in shown :
                         \A k \in 1..Len(children[op.order[i]]) :
                             q[3] # children[op.order[i]][k]

\* Three stages with something to show were ticked; the second does not
\* clear and the third does: the canvas shows the third's output only.
C11_Witness ==
    /\ op.name = "frame"
    /\ Len(op.order) = 3
    /\ \A i \in 1..3 : StageOutput(op.order[i]) # {}
    /\ ~autoClear[op.order[2]]
    /\ autoClear[op.order[3]]
    /\ surface[canvas[op.order[3]]].pixels = StageOutput(op.order[3])

\* Three stages with something to show were ticked and only the first
\* clears: the canvas shows something of each.
C11_WitnessKept ==
    /\ op.name = "frame"
    /\ Len(op.order) = 3
    /\ ~autoClear[op.order[2]]
    /\ ~autoClear[op.order[3]]
    /\ \A i \in 1..3 :
          /\ VisiblePart(op.order, i) # {}
          /\ VisiblePart(op.order, i) \subseteq surface[canvas[op.order[i]]].pixels

-----------------------------------------------------------------------------
(* Construction, ids and clones *)

\* DisplayObject.prototype.initialize(): the id taken from the UID generator,
\* the empty children, and the generator's counter afterwards.
initialize(counter) ==
    LET u == UID_get(counter)
    IN [id |-> u.value, children |-> <<>>, uid |-> u.counter]

\* cloneProps that copies the id as well.
cloneProps_copiesId(this, o) ==
    [props |-> props[this], id |-> id[this]]

\* this.cloneProps(o): o, a node as [props, id], after the copy.
cloneProps(this, o) ==
    [props |-> [o.props EXCEPT !.alpha = props[this].alpha,
                               !.regX = props[this].regX,
                               !.regY = props[this].regY,
                               !.rotation = props[this].rotation,
                               !.scaleX = props[this].scaleX,
                               !.scaleY = props[this].scaleY,
                               !.shadow = props[this].shadow,
                               !.visible = props[this].visible,
                               !.x = props[this].x,
                               !.y = props[this].y,
                               !.mouseEnabled = props[this].mouseEnabled],
     id |-> o.id]

\* The node has been constructed.
Made(n) == id[n] # -1

\* new DisplayObject() (or a constructor that only calls initialize), the
\* new object being n.
Construct(n) ==
    /\ ~Made(n)
    /\ LET i == initialize(uid)
       IN /\ id' = [id EXCEPT ![n] = i.id]
          /\ uid' = i.uid
          /\ children' = [children EXCEPT ![n] = i.children]
    /\ op' = Op("new", n, 0, 0, NULL)
    /\ ret' = NodeVal(n)
    /\ UNCHANGED <<parent, props, cacheVars, stageVars, mouse, handlers>>

\* this.clone(), the new object being o.
clone(this, o) ==
    /\ Made(this)
    /\ ~Made(o)
    /\ LET i == initialize(uid)
           made == cloneProps(this, [props |-> DefaultProps, id |-> i.id])
       IN /\ id' = [id EXCEPT ![o] = made.id]
          /\ uid' = i.uid
          /\ children' = [children EXCEPT ![o] = i.children]
          /\ props' = [props EXCEPT ![o] = made.props]
    /\ op' = Op("clone", this, 0, 0, NULL)
    /\ ret' = NodeVal(o)
    /\ UNCHANGED <<parent, cacheVars, stageVars, mouse, handlers>>

\* The nodes a page constructs one by one.
IdNodes == {"sprite", "shapeA", "shapeB", "shapeC"}

\* A page that has constructed nothing yet.
InitIds ==
    /\ parent = [n \in Nodes |-> NULL]
    /\ children = NoChildren
    /\ props = [n \in Nodes |-> DefaultProps]
    /\ cacheCanvas = [n \in Nodes |-> Null]
    /\ cacheOffset = [n \in Nodes |-> [x |-> 0, y |-> 0]]
    /\ id = [n \in Nodes |-> -1]
    /\ uid = 0
    /\ mouse = [n \in Stages |-> NoMouse]
    /\ handlers = [n \in Nodes |-> {}]
    /\ NoStage
    /\ content = [n \in Nodes |-> {}]
    /\ cachedFrom = [n \in Nodes |-> {}]
    /\ op = NoOp
    /\ ret = Undefined

NextIds ==
    \/ \E n \in IdNodes : Construct(n)
    \/ \E n \in Shapes, o \in Shapes : clone(n, o)
    \/ \E t \in Transforms : Made("shapeA") /\ SetTransform("shapeA", t)

SpecIds == InitIds /\ [][NextIds]_vars

\* C12: the ids of the nodes constructed so far, clones included, are
\* pairwise distinct, and a clone does not have the id of its original.
C12_IdsDistinct ==
    /\ \A n, m \in Nodes : (Made(n) /\ Made(m) /\ n # m) => id[n] # id[m]
    /\ op.name = "clone" => (Made(ret.node) /\ id[ret.node] # id[op.this])

\* A node that was moved has been cloned, after other constructions: the
\* clone has the original's transform and an id of its own.
C12_Witness ==
    /\ op.name = "clone"
    /\ props[op.this] # DefaultProps
    /\ props[ret.node] = props[op.this]
    /\ id[ret.node] > id[op.this] + 1
    /\ \A n \in IdNodes : Made(n)

-----------------------------------------------------------------------------
(* Visibility *)

BoolVal(b) == [tag |-> "boolean", value |-> b]

\* The visible, alpha, scaleX and scaleY an application gives a node.
VisibilitySettings ==
    [visible : BOOLEAN,
     alpha : {Rat(-1, 1), Rat(0, 1), Rat(1, 2), Rat(1, 1)},
     scaleX : {-1, 0, 1},
     scaleY : {0, 1}]

\* The application assigns node.visible, node.alpha, node.scaleX and
\* node.scaleY.
SetVisibility(n, v) ==
    /\ props' = [props EXCEPT ![n] =
                   [@ EXCEPT !.visible = v.visible, !.alpha = v.alpha,
                             !.scaleX = v.scaleX, !.scaleY = v.scaleY]]
    /\ props'[n] # props[n]
    /\ op' = Op("set", n, 0, 0, NULL)
    /\ ret' = Undefined
    /\ UNCHANGED <<parent, children>>
    /\ UNCHANGED notTree

\* The application calls node.isVisible().
CallIsVisible(n) ==
    /\ op' = Op("isVisible", n, 0, 0, NULL)
    /\ ret' = BoolVal(isVisible(n))
    /\ UNCHANGED treeVars
    /\ UNCHANGED notTree

\* The shapes of the scene whose visibility changes.
VisibleShapes == {"shapeA", "shapeB"}

\* A stage on a canvas and two shapes that both draw at the origin, not yet
\* on the stage.
InitVisible ==
    /\ Constructed
    /\ content = [n \in Nodes |->
                    CASE n = "shapeA" -> {<<0, 0>>}
                      [] n = "shapeB" -> {<<0, 0>>, <<1, 0>>}
                      [] OTHER -> {}]
    /\ cachedFrom = [n \in Nodes |-> {}]
    /\ canvas = [n \in Stages |-> "canvas1"]
    /\ surface = [c \in CanvasIds |-> Canvas(SurfaceSize, SurfaceSize)]
    /\ autoClear = [n \in Stages |-> TRUE]
    /\ tmpCanvas = [n \in Stages |-> Null]
    /\ calls = <<>>
    /\ op = NoOp
    /\ ret = Undefined

NextVisible ==
    \/ \E s \in MainStages, c \in VisibleShapes : addChild(s, c)
    \/ \E s \in MainStages, c \in VisibleShapes : removeChild(s, c)
    \/ \E v \in VisibilitySettings : SetVisibility("shapeA", v)
    \/ \E n \in VisibleShapes : CallIsVisible(n)
    \/ \E s \in MainStages : update(s)
    \/ \E s \in MainStages, x \in Coords : getObjectsUnderPoint(s, x, 0)
    \/ \E s \in MainStages, x \in Coords : getObjectUnderPoint(s, x, 0)

SpecVisible == InitVisible /\ [][NextVisible]_vars

\* The node has visible false, alpha <= 0, scaleX = 0 or scaleY = 0.
Hidden(n) ==
    \/ props[n].visible = FALSE
    \/ props[n].alpha[1] <= 0
    \/ props[n].scaleX = 0
    \/ props[n].scaleY = 0

\* C13: isVisible() returns false for a node with visible false, alpha <= 0,
\* scaleX = 0 or scaleY = 0 and true for any other; a node for which it is
\* false is in no hit-test result, and no pixel of it is on the canvas after
\* its stage is rendered.
C13_HiddenIsExcluded ==
    /\ op.name = "isVisible" => ret = BoolVal(~Hidden(op.this))
    /\ op.name \in HitQueries => \A n \in Nodes : Hidden(n) => n \notin Reported
    /\ (op.name = "update" /\ canvas[op.this] # NULL) =>
          \A n \in Nodes :
              Hidden(n) => \A q \in surface[canvas[op.this]].pixels : q[3] # n

\* A stage was rendered whose front shape is hidden by its scaleX alone: the
\* canvas shows the shape behind it where the two overlap.
C13_Witness ==
    /\ op.name = "update"
    /\ children[op.this] = <<"shapeB", "shapeA">>
    /\ props["shapeA"].visible
    /\ props["shapeA"].alpha = Rat(1, 1)
    /\ props["shapeA"].scaleX = 0
    /\ props["shapeA"].scaleY = 1
    /\ <<0, 0, "shapeB">> \in surface[canvas[op.this]].pixels

-----------------------------------------------------------------------------
(* Pointer events *)

Num(n) == [tag |-> "number", value |-> n]

\* canvas.offsetLeft and canvas.offsetTop: where the page lays the canvas out.
Offset(c) == [left |-> 1, top |-> 1]

\* new MouseEvent(type, stageX, stageY)
MouseEvent(type, stageX, stageY) ==
    [tag |-> "MouseEvent", type |-> type, stageX |-> stageX, stageY |-> stageY]

CallbackNames == {"onMouseMove", "onMouseUp", "onMouseDown"}

\* The call target[name](evt), if the target has that callback, with the
\* mouseX and mouseY of the stage at the time of the call.
Forward(target, name, evt, mouseX, mouseY) ==
    IF target # NULL /\ name \in handlers[target]
    THEN <<[callback |-> name, on |-> target, evt |-> evt,
            mouseX |-> mouseX, mouseY |-> mouseY]>>
    ELSE <<>>

\* A move handler that forwards to the stage's own callback only.
Stage_handleMouseMove_rootOnly(this, pageX, pageY) ==
    /\ op' = Op("_handleMouseMove", this, pageX, pageY, NULL)
    /\ ret' = Undefined
    /\ IF canvas[this] = NULL
       THEN /\ mouse' = [mouse EXCEPT ![this].mouseX = Null, ![this].mouseY = Null]
            /\ calls' = <<>>
       ELSE LET mouseX == Num(pageX - Offset(canvas[this]).left)
                mouseY == Num(pageY - Offset(canvas[this]).top)
                evt == MouseEvent("onMouseMove", mouseX, mouseY)
            IN /\ mouse' = [mouse EXCEPT ![this].mouseX = mouseX,
                                         ![this].mouseY = mouseY]
               /\ calls' = Forward(this, "onMouseMove", evt, mouseX, mouseY)
    /\ UNCHANGED <<canvas, surface, autoClear, tmpCanvas, treeVars, cacheVars,
                   uid, id, handlers>>

\* this._handleMouseMove(e), e with pageX and pageY
Stage_handleMouseMove(this, pageX, pageY) ==
    /\ op' = Op("_handleMouseMove", this, pageX, pageY, NULL)
    /\ ret' = Undefined
    /\ IF canvas[this] = NULL
       THEN /\ mouse' = [mouse EXCEPT ![this].mouseX = Null, ![this].mouseY = Null]
            /\ calls' = <<>>
       ELSE LET mouseX == Num(pageX - Offset(canvas[this]).left)
                mouseY == Num(pageY - Offset(canvas[this]).top)
                evt == MouseEvent("onMouseMove", mouseX, mouseY)
            IN /\ mouse' = [mouse EXCEPT ![this].mouseX = mouseX,
                                         ![this].mouseY = mouseY]
               /\ calls' = Forward(this, "onMouseMove", evt, mouseX, mouseY)
                           \o Forward(mouse[this].activeMouseEvent, "onMouseMove",
                                      evt, mouseX, mouseY)
    /\ UNCHANGED <<canvas, surface, autoClear, tmpCanvas, treeVars, cacheVars,
                   uid, id, handlers>>

\* this._handleMouseUp(e)
Stage_handleMouseUp(this) ==
    /\ op' = Op("_handleMouseUp", this, 0, 0, NULL)
    /\ ret' = Undefined
    /\ LET evt == MouseEvent("onMouseUp", mouse[this].mouseX, mouse[this].mouseY)
       IN calls' = Forward(this, "onMouseUp", evt,
                           mouse[this].mouseX, mouse[this].mouseY)
                   \o Forward(mouse[this].activeMouseEvent, "onMouseUp", evt,
                              mouse[this].mouseX, mouse[this].mouseY)
    /\ UNCHANGED <<canvas, surface, autoClear, tmpCanvas, treeVars, cacheVars,
                   pageVars>>

\* this._handleMouseDown(e)
Stage_handleMouseDown(this) ==
    /\ op' = Op("_handleMouseDown", this, 0, 0, NULL)
    /\ ret' = Undefined
    /\ calls' = Forward(this, "onMouseDown",
                        MouseEvent("onMouseDown", mouse[this].mouseX,
                                   mouse[this].mouseY),
                        mouse[this].mouseX, mouse[this].mouseY)
    /\ UNCHANGED <<canvas, surface, autoClear, tmpCanvas, treeVars, cacheVars,
                   pageVars>>

\* The application sets or removes a mouse callback of a node.
SetHandler(n, name, on) ==
    /\ handlers' = [handlers EXCEPT ![n] =
                      IF on THEN @ \cup {name} ELSE @ \ {name}]
    /\ handlers' # handlers
    /\ op' = Op("set", n, 0, 0, NULL)
    /\ ret' = Undefined
    /\ UNCHANGED <<stageVars, treeVars, cacheVars, uid, id, mouse>>

\* The application designates the node that is active for the pointer.
SetActive(this, n) ==
    /\ n # mouse[this].activeMouseEvent
    /\ mouse' = [mouse EXCEPT ![this].activeMouseEvent = n]
    /\ op' = Op("set", this, 0, 0, NULL)
    /\ ret' = Undefined
    /\ UNCHANGED <<stageVars, treeVars, cacheVars, uid, id, handlers>>

\* The node that can be made active.
ActiveNodes == {"shapeA"}

\* A stage constructed on a canvas: its listeners are registered.
InitMouse ==
    /\ Constructed
    /\ content = [n \in Nodes |-> {}]
    /\ cachedFrom = [n \in Nodes |-> {}]
    /\ canvas = [n \in Stages |-> "canvas1"]
    /\ surface = [c \in CanvasIds |-> Canvas(SurfaceSize, SurfaceSize)]
    /\ autoClear = [n \in Stages |-> TRUE]
    /\ tmpCanvas = [n \in Stages |-> Null]
    /\ calls = <<>>
    /\ op = NoOp
    /\ ret = Undefined

NextMouse ==
    \/ \E s \in MainStages, x \in Coords, y \in Coords :
          Stage_handleMouseMove(s, Offset("canvas1").left + x,
                                Offset("canvas1").top + y)
    \/ \E s \in MainStages : Stage_handleMouseUp(s)
    \/ \E s \in MainStages : Stage_handleMouseDown(s)
    \/ \E n \in MainStages \cup ActiveNodes, c \in CallbackNames, b \in BOOLEAN :
          SetHandler(n, c, b)
    \/ \E s \in MainStages, n \in ActiveNodes \cup {NULL} : SetActive(s, n)
    \/ \E s \in MainStages, c \in CanvasIds \cup {NULL} : SetCanvas(s, c)

SpecMouse == InitMouse /\ [][NextMouse]_vars

\* The callbacks a stage forwards an event to: its own, if set, then that of
\* its active node, if there is one and it has the callback.
Forwarded(s, name) ==
    (IF name \in handlers[s] THEN <<s>> ELSE <<>>)
    \o (IF /\ mouse[s].activeMouseEvent # NULL
           /\ name \in handlers[mouse[s].activeMouseEvent]
        THEN <<mouse[s].activeMouseEvent>>
        ELSE <<>>)

\* The calls made were of the callback name on the targets, in order, each
\* with an event of that type.
CalledOn(targets, name) ==
    /\ Len(calls) = Len(targets)
    /\ \A i \in 1..Len(calls) :
          /\ calls[i].callback = name
          /\ calls[i].on = targets[i]
          /\ calls[i].evt.type = name

\* C14: on a press and on a release, an event is forwarded to the stage's
\* callback, if set, and to the callback of the active node, if there is one
\* and it has that callback.
C14_PressReleaseForwarded ==
    /\ op.name = "_handleMouseUp" => CalledOn(Forwarded(op.this, "onMouseUp"), "onMouseUp")
    /\ op.name = "_handleMouseDown" =>
          CalledOn(Forwarded(op.this, "onMouseDown"), "onMouseDown")

\* C14, the release alone: the event goes to the stage's callback and to the
\* active node's.
C14_ReleaseForwarded ==
    op.name = "_handleMouseUp" => CalledOn(Forwarded(op.this, "onMouseUp"), "onMouseUp")

\* C20: a pointer move on a stage without a canvas sets mouseX and mouseY to
\* null and calls nothing; on a stage with a canvas it sets them to the
\* position relative to the canvas, then calls the stage's move callback, if
\* set, then the active node's, if any, each with the same event carrying
\* the new position, and each seeing the new mouseX and mouseY.
C20_MoveUpdatesThenForwards ==
    op.name = "_handleMouseMove" =>
        LET s == op.this
        IN IF canvas[s] = NULL
           THEN /\ mouse[s].mouseX = Null
                /\ mouse[s].mouseY = Null
                /\ calls = <<>>
           ELSE /\ mouse[s].mouseX = Num(op.x - Offset(canvas[s]).left)
                /\ mouse[s].mouseY = Num(op.y - Offset(canvas[s]).top)
                /\ CalledOn(Forwarded(s, "onMouseMove"), "onMouseMove")
                /\ \A i \in 1..Len(calls) :
                      /\ calls[i].evt.stageX = mouse[s].mouseX
                      /\ calls[i].evt.stageY = mouse[s].mouseY
                      /\ calls[i].mouseX = mouse[s].mouseX
                      /\ calls[i].mouseY = mouse[s].mouseY
                      /\ calls[i].evt = calls[1].evt

\* A move away from the position of the move before it was forwarded to the
\* stage's callback and then to the active node's.
C20_Witness ==
    /\ op.name = "_handleMouseMove"
    /\ canvas[op.this] # NULL
    /\ Len(calls) = 2
    /\ calls[1].on = op.this
    /\ calls[2].on = mouse[op.this].activeMouseEvent
    /\ calls[1].evt.stageX = Num(1)
    /\ calls[1].evt.stageY = Num(0)

\* A move reached a stage whose canvas had been taken away: the position it
\* had is gone.
C20_WitnessUnbound ==
    /\ op.name = "_handleMouseMove"
    /\ canvas[op.this] = NULL
    /\ "onMouseMove" \in handlers[op.this]
    /\ mouse[op.this].mouseX = Null

-----------------------------------------------------------------------------
(* Renders and queries on one stage *)

\* The sizes the page gives the stage's canvas.
CanvasSizes == {MaxSize, SurfaceSize}

\* The application assigns canvas.width and canvas.height.
ResizeCanvas(c, w, h) ==
    /\ <<w, h>> # <<surface[c].width, surface[c].height>>
    /\ surface' = [surface EXCEPT ![c] = SetHeight(SetWidth(@, w), h)]
    /\ op' = Op("resize", c, 0, 0, NULL)
    /\ ret' = Undefined
    /\ UNCHANGED <<canvas, autoClear, tmpCanvas, calls, treeVars, cacheVars, pageVars>>

\* A stage on a canvas and a shape with a drawing, not yet on the stage.
InitRender ==
    /\ Constructed
    /\ content = [n \in Nodes |->
                    IF n = "shapeA" THEN {<<0, 0>>, <<1, 0>>} ELSE {}]
    /\ cachedFrom = [n \in Nodes |-> {}]
    /\ canvas = [n \in Stages |-> "canvas1"]
    /\ surface = [c \in CanvasIds |-> Canvas(SurfaceSize, SurfaceSize)]
    /\ autoClear = [n \in Stages |-> TRUE]
    /\ tmpCanvas = [n \in Stages |-> Null]
    /\ calls = <<>>
    /\ op = NoOp
    /\ ret = Undefined

NextRender ==
    \/ \E s \in MainStages : update(s)
    \/ \E s \in MainStages, x \in Coords : getObjectsUnderPoint(s, x, 0)
    \/ \E s \in MainStages, x \in Coords : getObjectUnderPoint(s, x, 0)
    \/ \E s \in MainStages, b \in BOOLEAN : SetAutoClear(s, b)
    \/ \E s \in MainStages, c \in CanvasIds \cup {NULL} : SetCanvas(s, c)
    \/ \E c \in CanvasIds, w \in CanvasSizes, h \in CanvasSizes : ResizeCanvas(c, w, h)
    \/ \E n \in MainStages \cup {"shapeA"}, x \in DrawOrigins : SetX(n, x)
    \/ \E s \in MainStages : addChild(s, "shapeA")
    \/ \E s \in MainStages : removeChild(s, "shapeA")

SpecRender == InitRender /\ [][NextRender]_vars

\* How many of the calls are among names.
CountCalls(names) == Cardinality({i \in DOMAIN calls : calls[i] \in names})

\* No context carries a pushed transform: every canvas is back at the
\* transform it had before the operation, the identity.
Idle ==
    /\ \A c \in DOMAIN surface : surface[c].ctm = Matrix2D_identity
    /\ \A s \in Stages :
          ~IsNull(tmpCanvas[s]) => tmpCanvas[s].ctm = Matrix2D_identity

\* C15: a render on a stage with a canvas calls clear (only with autoClear),
\* updateContext, draw and revertContext, in this order; a query calls
\* updateContext in hit-test mode, the descent and revertContext, in this
\* order; every operation makes as many updateContext as revertContext
\* calls, and after it no context is left with the stage's transform.
C15_PushRevertBalanced ==
    /\ (op.name = "update" /\ canvas[op.this] # NULL) =>
          calls = (IF autoClear[op.this] THEN <<"clear">> ELSE <<>>)
                  \o <<"updateContext", "draw", "revertContext">>
    /\ (op.name \in HitQueries /\ canvas[op.this] # NULL) =>
          SelectSeq(calls, LAMBDA c : c # "createElement")
             = <<"updateContext:hitTest", "_Container_getObjectsUnderPoint",
                 "revertContext">>
    /\ CountCalls({"updateContext", "updateContext:hitTest"})
          = CountCalls({"revertContext"})
    /\ Idle

\* A stage that is itself moved, with a shape to show, was queried after it
\* had been rendered without clearing.
C15_Witness ==
    /\ op.name \in HitQueries
    /\ props[op.this].x # 0
    /\ children[op.this] # <<>>
    /\ canvas[op.this] # NULL
    /\ ~autoClear[op.this]
    /\ surface[canvas[op.this]].pixels # {}
    /\ calls = <<"updateContext:hitTest", "_Container_getObjectsUnderPoint",
                 "revertContext">>
    /\ Reported # {}

\* C18: a query creates the stage's offscreen canvas if and only if the
\* stage has none yet, so every later query uses the one the first made;
\* after a query on a stage with a canvas the offscreen canvas has the width
\* and height the stage's canvas has at that time; nothing but a query
\* assigns the offscreen canvas.
C18_TmpCanvasLazyAndSized ==
    [][/\ op'.name \in HitQueries =>
             /\ (\E i \in DOMAIN calls' : calls'[i] = "createElement")
                    <=> IsNull(tmpCanvas[op'.this])
             /\ ~IsNull(tmpCanvas'[op'.this])
             /\ canvas[op'.this] # NULL =>
                   /\ tmpCanvas'[op'.this].width = surface[canvas[op'.this]].width
                   /\ tmpCanvas'[op'.this].height = surface[canvas[op'.this]].height
       /\ op'.name \notin HitQueries => UNCHANGED tmpCanvas]_vars

\* A query after the stage's canvas was resized reused the offscreen canvas
\* of an earlier query, now at the new size.
C18_Witness ==
    /\ op.name \in HitQueries
    /\ canvas[op.this] # NULL
    /\ \A i \in DOMAIN calls : calls[i] # "createElement"
    /\ surface[canvas[op.this]].width = MaxSize
    /\ surface[canvas[op.this]].height = SurfaceSize
    /\ tmpCanvas[op.this].width = MaxSize
    /\ tmpCanvas[op.this].height = SurfaceSize

-----------------------------------------------------------------------------
(* Caching: the base draw and repeated cache() calls *)

\* What blitting the node's cache at its offset shows on a fresh surface
\* whose context is translated by (dx, dy).
Blit(n, dx, dy) ==
    {q \in {<<p[1] + cacheOffset[n].x + dx, p[2] + cacheOffset[n].y + dy, p[3]>> :
               p \in cacheCanvas[n].pixels} :
        /\ 0 <= q[1] /\ q[1] < SurfaceSize
        /\ 0 <= q[2] /\ q[2] < SurfaceSize}

\* C16: a node has a cache exactly when the last of the cache() and
\* uncache() calls on it was cache() (cache() leaves one, uncache() leaves
\* none, nothing else assigns it), and the base draw reports handled and
\* blits the cache if and only if ignoreCache is false and the node has a
\* cache; otherwise it reports not handled and draws nothing.
C16_HandledIffCached ==
    [][/\ op'.name = "cache" => ~IsNull(cacheCanvas'[op'.this])
       /\ op'.name = "uncache" => IsNull(cacheCanvas'[op'.this])
       /\ op'.name \notin {"cache", "uncache"} => UNCHANGED cacheCanvas
       /\ op'.name = "baseDraw" =>
             LET hit == ~op'.ignoreCache /\ ~IsNull(cacheCanvas[op'.this])
             IN /\ ret'.handled = hit
                /\ ret'.pixels = IF hit THEN Blit(op'.this, op'.x, op'.y) ELSE {}]_vars

\* The base draw of a node with content, cached once and then uncached, with
\* ignoreCache false: not handled, nothing drawn.
C16_Witness ==
    /\ op.name = "baseDraw"
    /\ ~op.ignoreCache
    /\ content[op.this] # {}
    /\ cachedFrom[op.this] # {}
    /\ IsNull(cacheCanvas[op.this])
    /\ ~ret.handled
    /\ ret.pixels = {}

\* The base draw of a cached node with ignoreCache false: handled, and the
\* cache shown.
C16_WitnessHandled ==
    /\ op.name = "baseDraw"
    /\ ~op.ignoreCache
    /\ ret.handled
    /\ ret.pixels # {}

\* C17: a cache() call on a node that has a cache canvas reuses it (it
\* creates one only when the node has none); after the call the canvas is
\* width x height of this call, its context is translated by (-x, -y) of
\* this call alone, the node's draw was called once, with ignoreCache true,
\* and the cache offset is (x, y) of this call.
C17_RecacheReflectsLastCall ==
    [][op'.name = "cache" =>
          LET n == op'.this
              cv == cacheCanvas'[n]
          IN /\ (\E i \in DOMAIN calls' : calls'[i] = "createElement")
                    <=> IsNull(cacheCanvas[n])
             /\ cv.width = op'.width
             /\ cv.height = op'.height
             /\ cv.ctm = [Matrix2D_identity EXCEPT !.tx = 0 - op'.x, !.ty = 0 - op'.y]
             /\ Cardinality({i \in DOMAIN calls' : calls'[i] = "draw(ctx, true)"}) = 1
             /\ cacheOffset'[n] = [x |-> op'.x, y |-> op'.y]]_vars

\* A cache() call on a node that already had a cache, with a corner away
\* from the origin: no canvas was created.
C17_Witness ==
    /\ op.name = "cache"
    /\ calls = <<"draw(ctx, true)">>
    /\ op.x = 1
    /\ op.y = -1
    /\ op.width = MaxSize
    /\ cacheCanvas[op.this].pixels # {}

-----------------------------------------------------------------------------
(* The accumulators of the concatenated matrix *)

\* The shadow value a node can be given: one of its own.
ShadowOf(n) ==
    CASE n = "stage" -> "shadowStage"
      [] n = "sprite" -> "shadowSprite"
      [] OTHER -> "shadowShape"

Alphas == {Rat(1, 1), Rat(1, 2), Rat(1, 4)}

\* The application assigns node.alpha and node.shadow.
SetAlphaShadow(n, alpha, shadow) ==
    /\ ~Converted
    /\ props' = [props EXCEPT ![n] = [@ EXCEPT !.alpha = alpha, !.shadow = shadow]]
    /\ props'[n] # props[n]
    /\ op' = Op("set", n, 0, 0, NULL)
    /\ ret' = Undefined
    /\ UNCHANGED <<parent, children>>
    /\ UNCHANGED notTree

\* Matrices an application keeps for reuse, holding what an earlier use left
\* in them.
ScratchMatrices ==
    {[Matrix2D_identity EXCEPT !.a = 2, !.tx = 3, !.alpha = Rat(1, 3),
                               !.shadow = "shadowOld", !.instance = "scratchA"],
     [Matrix2D_identity EXCEPT !.d = -1, !.alpha = Rat(0, 1),
                               !.instance = "scratchB"]}

MatrixOp(this, mtx) ==
    [name |-> "getConcatenatedMatrix", this |-> this, mtx |-> mtx]

\* The application calls n.getConcatenatedMatrix(mtx).
CallGetConcatenatedMatrixInto(n, mtx) ==
    /\ ~Converted
    /\ op' = MatrixOp(n, mtx)
    /\ ret' = getConcatenatedMatrixInto(n, mtx)
    /\ UNCHANGED treeVars
    /\ UNCHANGED notTree

\* The transforms the nodes of this scene are given.
AccumTransforms == {t \in Transforms : t.scaleX # 0 /\ t.scaleY # 0 /\ t.rotation = 0}

NextAccum ==
    \/ \E p \in TreeNodes, c \in TreeNodes : addChild(p, c)
    \/ \E p \in TreeNodes, c \in TreeNodes : removeChild(p, c)
    \/ \E n \in TreeNodes, a \in Alphas, hasShadow \in BOOLEAN :
          SetAlphaShadow(n, a, IF hasShadow THEN ShadowOf(n) ELSE NULL)
    \/ \E t \in AccumTransforms : SetTransform("sprite", t)
    \/ \E n \in TreeNodes, m \in ScratchMatrices \cup {Null} :
          CallGetConcatenatedMatrixInto(n, m)

SpecAccum == InitTree /\ [][NextAccum]_vars

\* The node and its ancestors, from the node up.
RECURSIVE ChainOf(_)
ChainOf(n) == IF parent[n] = NULL THEN <<n>> ELSE <<n>> \o ChainOf(parent[n])

\* The product of the alphas of the nodes.
RECURSIVE AlphaProduct(_)
AlphaProduct(chain) ==
    IF chain = <<>>
    THEN Rat(1, 1)
    ELSE LET rest == AlphaProduct(Tail(chain))
             own == props[Head(chain)].alpha
         IN Rat(own[1] * rest[1], own[2] * rest[2])

\* The shadow of the first of the nodes that has one.
RECURSIVE FirstShadow(_)
FirstShadow(chain) ==
    IF chain = <<>>
    THEN NULL
    ELSE IF props[Head(chain)].shadow # NULL
    THEN props[Head(chain)].shadow
    ELSE FirstShadow(Tail(chain))

\* C19: for a node on a stage, the matrix getConcatenatedMatrix returns has
\* for alpha the product of the alphas of the node and its ancestors and for
\* shadow the shadow of the first of them, from the node up, that has one;
\* a supplied matrix is the instance returned, and what it held before has
\* no part in the result.
C19_Accumulators ==
    (op.name = "getConcatenatedMatrix" /\ OnStage(op.this)) =>
        /\ ret.tag = "Matrix2D"
        /\ ret.alpha = AlphaProduct(ChainOf(op.this))
        /\ ret.shadow = FirstShadow(ChainOf(op.this))
        /\ ret.instance = IF IsNull(op.mtx) THEN "new" ELSE op.mtx.instance
        /\ \A m \in ScratchMatrices \cup {Null} :
               LET other == getConcatenatedMatrixInto(op.this, m)
               IN [other EXCEPT !.instance = ret.instance] = ret

\* A shape two levels below the stage, every alpha below 1, the sprite's
\* shadow the first on the way up and the stage with one as well, asked for
\* its matrix with a supplied matrix that held alpha 0.
C19_Witness ==
    /\ op.name = "getConcatenatedMatrix"
    /\ op.this = "shapeA"
    /\ ChainOf("shapeA") = <<"shapeA", "sprite", "stage">>
    /\ \A n \in TreeNodes : props[n].alpha # Rat(1, 1)
    /\ props["shapeA"].shadow = NULL
    /\ props["sprite"].shadow # NULL
    /\ props["stage"].shadow # NULL
    /\ ~IsNull(op.mtx)
    /\ op.mtx.alpha = Rat(0, 1)
    /\ ret.instance = "scratchB"
    /\ ret.shadow = "shadowSprite"
    /\ ret.alpha[1] > 0

-----------------------------------------------------------------------------
(* Constructing and cloning a stage *)

\* Stage.prototype.initialize(canvas): Container_initialize() gives the id
\* and the children, then canvas and mouseChildren are assigned, the mouseup
\* listener is registered on the window, and the mousemove and mousedown
\* listeners on the canvas; with a null canvas that last step raises.
Stage_initialize(canvasArg, counter) ==
    LET i == initialize(counter)
    IN [id |-> i.id, children |-> i.children, uid |-> i.uid,
        canvas |-> canvasArg,
        listeners |-> IF canvasArg = NULL
                      THEN <<"window.mouseup">>
                      ELSE <<"window.mouseup", "canvas.mousemove", "canvas.mousedown">>,
        raised |-> canvasArg = NULL]

\* new Stage(c), the new object being n.
ConstructStage(n, c) ==
    /\ ~Made(n)
    /\ LET i == Stage_initialize(c, uid)
       IN /\ id' = [id EXCEPT ![n] = i.id]
          /\ uid' = i.uid
          /\ children' = [children EXCEPT ![n] = i.children]
          /\ canvas' = [canvas EXCEPT ![n] = i.canvas]
          /\ calls' = i.listeners
          /\ ret' = IF i.raised THEN Raise("TypeError") ELSE NodeVal(n)
    /\ op' = Op("new Stage", n, 0, 0, NULL)
    /\ UNCHANGED <<parent, props, cacheVars, surface, autoClear, tmpCanvas,
                   mouse, handlers>>

\* Stage.prototype.clone(), the new object being o: new Stage(null), then
\* cloneProps(o) if the constructor returned.
Stage_clone(this, o) ==
    /\ Made(this)
    /\ ~Made(o)
    /\ LET i == Stage_initialize(NULL, uid)
           made == cloneProps(this, [props |-> DefaultProps, id |-> i.id])
       IN /\ id' = [id EXCEPT ![o] = i.id]
          /\ uid' = i.uid
          /\ children' = [children EXCEPT ![o] = i.children]
          /\ canvas' = [canvas EXCEPT ![o] = i.canvas]
          /\ calls' = i.listeners
          /\ IF i.raised
             THEN /\ props' = props
                  /\ ret' = Raise("TypeError")
             ELSE /\ props' = [props EXCEPT ![o] = made.props]
                  /\ ret' = NodeVal(o)
    /\ op' = Op("Stage.clone", this, 0, 0, NULL)
    /\ UNCHANGED <<parent, cacheVars, surface, autoClear, tmpCanvas, mouse, handlers>>

\* A page with one canvas that has constructed nothing yet.
InitClone ==
    /\ parent = [n \in Nodes |-> NULL]
    /\ children = NoChildren
    /\ props = [n \in Nodes |-> DefaultProps]
    /\ cacheCanvas = [n \in Nodes |-> Null]
    /\ cacheOffset = [n \in Nodes |-> [x |-> 0, y |-> 0]]
    /\ content = [n \in Nodes |-> {}]
    /\ cachedFrom = [n \in Nodes |-> {}]
    /\ id = [n \in Nodes |-> -1]
    /\ uid = 0
    /\ mouse = [n \in Stages |-> NoMouse]
    /\ handlers = [n \in Nodes |-> {}]
    /\ canvas = [n \in Stages |-> NULL]
    /\ surface = [c \in CanvasIds |-> Canvas(SurfaceSize, SurfaceSize)]
    /\ autoClear = [n \in Stages |-> TRUE]
    /\ tmpCanvas = [n \in Stages |-> Null]
    /\ calls = <<>>
    /\ op = NoOp
    /\ ret = Undefined

\* The application holds the stage: its constructor returned it.
Usable(s) == Made(s) /\ canvas[s] # NULL

NextClone ==
    \/ \E n \in MainStages, c \in CanvasIds \cup {NULL} : ConstructStage(n, c)
    \/ \E s \in MainStages, o \in Stages \ MainStages :
          Usable(s) /\ Stage_clone(s, o)
    \/ Construct("shapeA")
    \/ \E s \in MainStages, t \in Transforms : Usable(s) /\ SetTransform(s, t)
    \/ \E s \in MainStages, b \in BOOLEAN : Usable(s) /\ SetAutoClear(s, b)
    \/ \E s \in MainStages : Usable(s) /\ update(s)
    \/ \E s \in MainStages : Usable(s) /\ clear(s)

SpecClone == InitClone /\ [][NextClone]_vars

\* C21: Stage.clone() does not raise; it returns a new stage without a
\* canvas, with an id no other node has and with the display properties of
\* the original.
C21_StageCloneReturns ==
    op.name = "Stage.clone" =>
        /\ ret.tag = "node"
        /\ canvas[ret.node] = NULL
        /\ \A n \in Nodes : (Made(n) /\ n # ret.node) => id[n] # id[ret.node]
        /\ props[ret.node] = props[op.this]

-----------------------------------------------------------------------------
(* toImage and the context state *)

\* C22: after toImage returns, with or without a backgroundColor, the
\* globalCompositeOperation and the fillStyle of the canvas's context are
\* what they were before the call.
C22_ToImageRestoresContext ==
    [][(op'.name = "toImage" /\ canvas[op'.this] # NULL) =>
          /\ surface'[canvas[op'.this]].globalCompositeOperation
                = surface[canvas[op'.this]].globalCompositeOperation
          /\ surface'[canvas[op'.this]].fillStyle
                = surface[canvas[op'.this]].fillStyle]_vars

\* The globalCompositeOperation alone is what it was before the call.
C22_CompositeOperationRestored ==
    [][(op'.name = "toImage" /\ canvas[op'.this] # NULL) =>
          surface'[canvas[op'.this]].globalCompositeOperation
             = surface[canvas[op'.this]].globalCompositeOperation]_vars

====
